---- MODULE Spec2Model ----
(***************************************************************************)
(* A model of the renogy-rs collector pipeline and transports:             *)
(*   - SampleBuffer (src/collector/buffer.rs)                              *)
(*   - VmWriter     (src/collector/writer.rs)                              *)
(*   - run_poller   (src/bin/renogy-bms-collector.rs)                      *)
(*   - Bt2Transport::send_pdu and its relay task (src/bt2.rs)              *)
(*   - query_battery (src/query.rs)                                        *)
(* Snapshots are identified by the order in which they were produced.      *)
(***************************************************************************)
EXTENDS Integers, Sequences, FiniteSets, TLC

VARIABLES
    \* SampleBuffer
    samples,          \* BufferInner.samples, front (oldest) first
    max_samples,      \* BufferInner.max_samples
    overflow_logged,  \* SampleBuffer.overflow_logged
    requested,        \* the argument SampleBuffer::new was called with
    \* history of the buffer
    nextId,           \* id of the next snapshot to be produced
    lastOp,           \* the last buffer operation: name, argument, content before, result
    base,             \* content after the last operation that was not a push
    pushRun,          \* snapshots pushed since then, in push order
    held,             \* the batch a consumer took with drain_all and still owns
    evictedHead,      \* snapshots removed by pop_front in push
    droppedTail,      \* snapshots removed by pop_back in extend_front
    \* collector tasks (VmWriter::run, run_poller, the ctrl-c task)
    cancelled,        \* the shared CancellationToken
    wpc,              \* VmWriter::run position: tick, post, backoff, flush, done
    backoff,          \* VmWriter::run's backoff, in seconds
    wTimer,           \* the sleep the writer selects on: pending, ready (deadline
                      \* passed), or late (started after the token fired, so the
                      \* cancelled() branch is ready first)
    ppc,              \* run_poller position: tick, polling, done
    pIdx,             \* index into addresses of the battery polled next
    pTimer,           \* interval.tick() is ready
    \* history of the collector
    fails,            \* failed POSTs of the run loop since the last success
    sleepRun,         \* backoff sleeps started since the last success
    prevRun,          \* sleepRun as it was when the last POST succeeded
    lastPost,         \* outcome of the last POST: none, ok, err
    accepted,         \* snapshots of the batches the sink accepted
    flushLost,        \* snapshots of a final batch the sink did not accept
    pushedAtDrain,    \* snapshots pushed before the writer's last drain_all
    shut,             \* what the writer did after the token fired
    \* Bt2Transport (send_pdu, the relay task, the BT-2 device)
    chan,             \* the mpsc channel notify_tx -> notify_rx, oldest first
    notifyValue,      \* Value of the notify characteristic: the request its
                      \* payload answers, 0 while it is empty
    relayData,        \* the payload the relay task read and has not sent yet
    bpc,              \* send_pdu position: idle, drained, proxy, written
    reqNo,            \* number of the request send_pdu is working on
    devPending,       \* requests written to the device and not yet answered
    bres,             \* what the last send_pdu returned
    \* query_battery
    qpc,              \* index in ReadOrder of the read issued next
    qi,               \* loop variable i of the series being read
    qInfo,            \* the fields of BatteryInfo collected so far
    qLocal,           \* locals of query_battery: the sensor counts
    qFailed,          \* fields whose read (or one of whose reads) failed
    qMissed,          \* per series, the element reads that failed
    qFaults,          \* number of failed reads
    qClock,           \* time, one unit per completed read
    qOut,             \* running, None, Some
    \* AnyTransport::discover_batteries
    dLo,              \* range.start()
    dHi,              \* range.end()
    dNext,            \* the address the for loop probes next
    found,            \* the Vec found
    probed,           \* history: the probes made, [addr, ok], in order
    dpc,              \* scan, done
    \* Pdu::serialize / Pdu::deserialize
    pdu,              \* the Pdu F: address, function_code, payload
    wire,             \* serialize(F)
    rx,               \* the frame handed to deserialize
    rxHow,            \* how rx came about: none, intact, tampered, forged, cut
    pduRes,           \* what deserialize returned
    \* Bt2Transport: the relay task and the transport's lifetime
    relay,            \* the relay task: running (in its loop), exited (it
                      \* returned before the loop and dropped the Sender)
    dropped,          \* the Bt2Transport (and its Receiver) was dropped
    lateSends,        \* history: tx.send calls the relay made after the drop
    \* Bt2Transport::read_holding_registers, after send_pdu returned Ok
    respPayload,      \* response.payload
    quantity,         \* the quantity asked for
    rhrRes,           \* what read_holding_registers returned
    \* DeviceCommand
    command,          \* the DeviceCommand
    devAddr,          \* the device_address create_pdu is called with
    requests,         \* the requests made for the command, in order
    devPdu,           \* what create_pdu returned
    \* a bit-mapped register
    aReg,             \* the Register
    aWord,            \* the word the device holds in it
    aValue,           \* what parse_value returned
    aRaw,             \* the raw field batch_to_influx wrote for it
    apc,              \* read, parsed, exported
    \* the register catalog
    sReg,             \* the Register
    sValue,           \* the Value handed to serialize_value
    sInfo,            \* address(), quantity(), is_writable() of the register
    sRes,             \* what serialize_value returned
    sBack,            \* what parse_value made of the serialized bytes
    spc,              \* start, looked, serialized, parsed
    \* SerialTransport
    slave_id,         \* SerialTransport.slave_id
    ctxSlave,         \* the slave the tokio-modbus Context is set to
    handed,           \* the last request handed to the Context, with its slave
    serOps,           \* number of operations made on the transport
    serRes,           \* what the last send_receive returned
    \* Bt2Transport::write_multiple_registers
    wmSlave,          \* slave
    wmAddr,           \* addr
    wmValues,         \* values
    wmPdu,            \* the Pdu built for send_pdu
    \* the collector's main: sizing of the buffer
    argPoll,          \* args.poll_interval, seconds
    argBuffer,        \* args.buffer_duration, minutes
    sizedTo,          \* max_samples as main computes it (-1 before)
    bufCap,            \* BufferInner.max_samples of the buffer main creates
    \* SystemSummary
    batteries,        \* the slice of BatteryInfo handed to SystemSummary::new
    summary,           \* what SystemSummary::new(batteries) returned
    \* history of the overflow warning
    warnsSince,       \* warnings logged since the last drain_all
    evictsSince,      \* pushes that evicted a snapshot since the last drain_all
    warnsTotal,        \* warnings logged in all
    \* run_poller: the round in progress
    pstage,           \* query (query_battery awaited), push (it returned Some)
    registry,         \* per address index, the snapshot metrics.update saw last
    roundLog,         \* the queries of this round that are done: idx, some, id
    roundStart,        \* nextId when the round began
    \* MetricsServer::run and the end of main
    srvpc,            \* bind, serving, draining (the token fired), done
    srvConns,         \* requests the server has accepted and not answered
    mainpc            \* main: poller (in run_poller), joining, done

bufVars == <<samples, max_samples, overflow_logged, requested>>
histVars == <<nextId, lastOp, base, pushRun, held, evictedHead, droppedTail>>
collVars == <<cancelled, wpc, backoff, wTimer, ppc, pIdx, pTimer>>
collHist == <<fails, sleepRun, prevRun, lastPost, accepted, flushLost,
              pushedAtDrain, shut>>

bt2Vars == <<chan, notifyValue, relayData, bpc, reqNo, devPending, bres>>

qryVars == <<qpc, qi, qInfo, qLocal, qFailed, qMissed, qFaults, qClock, qOut>>

discVars == <<dLo, dHi, dNext, found, probed, dpc>>

\* the state of the subsystems above, and of the ones below
coreVars == <<bufVars, histVars, collVars, collHist, bt2Vars, qryVars>>
pduVars == <<pdu, wire, rx, rxHow, pduRes>>
bt2Life == <<relay, dropped, lateSends>>
readVars == <<respPayload, quantity, rhrRes>>
devVars == <<command, devAddr, requests, devPdu>>
alarmVars == <<aReg, aWord, aValue, aRaw, apc>>
regVars == <<sReg, sValue, sInfo, sRes, sBack, spc>>
serVars == <<slave_id, ctxSlave, handed, serOps, serRes>>
wmVars == <<wmSlave, wmAddr, wmValues, wmPdu>>
sizeVars == <<argPoll, argBuffer, sizedTo, bufCap>>
sumVars == <<batteries, summary>>
ovVars == <<warnsSince, evictsSince, warnsTotal>>
pollVars == <<pstage, registry, roundLog, roundStart>>
srvVars == <<srvpc, srvConns, mainpc>>
extVars == <<discVars, pduVars, bt2Life, readVars, devVars, alarmVars, regVars, serVars, wmVars, sizeVars, sumVars, ovVars, pollVars, srvVars>>

vars == <<coreVars, extVars>>

----------------------------------------------------------------------------
\* Bounds of the model.
MaxCap == 2
MaxIds == 5
MaxBatch == 3
MaxSnap == 3
MaxRetry == 3
MaxFails == 8
MaxFew == 1
MaxAddrs == 2
MaxReq == 3
MaxFaults == 2
MaxScan == 5
MaxPayload == 2
MaxLate == 2
MaxResp == 3
MaxQuantity == 2
MaxSetBits == 2
MaxSerialOps == 3
MaxValues == 128
MaxPoll == 61
MaxMinutes == 2
MaxBatteries == 3
MaxConns == 1
MaxDown == 1

----------------------------------------------------------------------------
\* Helpers on sequences.
Min(a, b) == IF a <= b THEN a ELSE b
Max(a, b) == IF a >= b THEN a ELSE b
Range(s) == {s[i] : i \in 1..Len(s)}
Reverse(s) == [i \in 1..Len(s) |-> s[Len(s) + 1 - i]]
FirstN(s, n) == SubSeq(s, 1, Min(n, Len(s)))
LastN(s, n) == SubSeq(s, Len(s) - Min(n, Len(s)) + 1, Len(s))
\* VecDeque::pop_front / pop_back: no effect on an empty deque.
pop_front(q) == IF q = <<>> THEN q ELSE Tail(q)
pop_back(q) == IF q = <<>> THEN q ELSE SubSeq(q, 1, Len(q) - 1)
push_front(q, s) == <<s>> \o q
push_back(q, s) == Append(q, s)

----------------------------------------------------------------------------
\* SampleBuffer (src/collector/buffer.rs)

\* new: max_samples.max(1)
new(m) == Max(m, 1)

\* push with the eviction test off by one (> for >=).
push_late_evict(q, cap, s) ==
    IF Len(q) > cap THEN push_back(pop_front(q), s) ELSE push_back(q, s)

\* push evicting the newest instead of the oldest.
push_evict_back(q, cap, s) ==
    IF Len(q) >= cap THEN push_back(pop_back(q), s) ELSE push_back(q, s)

\* push: evict the front when the buffer is full, then push_back.
push(q, cap, s) ==
    IF Len(q) >= cap THEN push_back(pop_front(q), s) ELSE push_back(q, s)

\* what push's pop_front removes
push_evicted(q, cap) == IF Len(q) >= cap /\ q # <<>> THEN {Head(q)} ELSE {}

\* a warning on every eviction
push_warns_each(q, cap, latch) == Len(q) >= cap

\* the warning of push: logged when an eviction finds the latch clear.
push_warns(q, cap, latch) == Len(q) >= cap /\ ~latch
push_latch(q, cap, latch) == IF Len(q) >= cap THEN TRUE ELSE latch

\* the loop of extend_front over the iterator it: pop_back when full, then
\* push_front
RECURSIVE extend_front_loop(_, _, _)
extend_front_loop(q, cap, it) ==
    IF it = <<>> THEN q
    ELSE LET q1 == IF Len(q) >= cap THEN pop_back(q) ELSE q
         IN extend_front_loop(push_front(q1, Head(it)), cap, Tail(it))

\* what the pop_back calls of that loop remove
RECURSIVE extend_front_popped(_, _, _)
extend_front_popped(q, cap, it) ==
    IF it = <<>> THEN {}
    ELSE LET full == Len(q) >= cap /\ q # <<>>
             q1 == IF Len(q) >= cap THEN pop_back(q) ELSE q
         IN (IF full THEN {q[Len(q)]} ELSE {})
            \cup extend_front_popped(push_front(q1, Head(it)), cap, Tail(it))

\* extend_front iterating the batch front to back (without .rev()).
extend_front_norev(q, cap, batch) == extend_front_loop(q, cap, batch)

\* extend_front: for each sample of the batch, last first: pop_back when
\* full, then push_front.
extend_front(q, cap, batch) == extend_front_loop(q, cap, Reverse(batch))
extend_front_dropped(q, cap, batch) == extend_front_popped(q, cap, Reverse(batch))

\* drain_all that leaves the newest snapshot behind.
drain_all_ret_short(q) == pop_back(q)

\* drain_all that returns a copy and leaves the deque as it was.
drain_all_rest_kept(q) == q

\* drain_all: samples.drain(..).collect() returns the content front first
\* and leaves the deque empty.
drain_all_ret(q) == q
drain_all_rest(q) == SubSeq(q, Len(drain_all_ret(q)) + 1, Len(q))

----------------------------------------------------------------------------
\* The buffer on its own: any sequence of push, extend_front and drain_all
\* through any clone (every clone shares the one Mutex<BufferInner>).

\* BatteryInfo before any read: strings empty, numbers 0, series empty,
\* options None
NoInfo ==
    [timestamp |-> 0, serial |-> "default", model |-> "default",
     software_version |-> "default", manufacturer |-> "default",
     cell_count |-> 0, cell_voltages |-> 0, cell_temperatures |-> 0,
     bms_temperature |-> "None", environment_temperatures |-> 0,
     heater_temperatures |-> 0, module_voltage |-> "default",
     current |-> "default", remaining_capacity |-> "default",
     total_capacity |-> "default", cycle_count |-> "default",
     charge_voltage_limit |-> "None", discharge_voltage_limit |-> "None",
     charge_current_limit |-> "None", discharge_current_limit |-> "None",
     status1 |-> "None", status2 |-> "None", status3 |-> "None",
     other_alarm_info |-> "None", cell_voltage_alarms |-> "None",
     cell_temperature_alarms |-> "None", charge_discharge_status |-> "None"]

\* the four Vec<f32> series of BatteryInfo
SeriesFields == {"cell_voltages", "cell_temperatures", "environment_temperatures",
                 "heater_temperatures"}

NoMissed == [f \in SeriesFields |-> 0]

NoLocal == [cell_temp_count |-> 0, env_temp_count |-> 0, heater_temp_count |-> 0,
            serial_at |-> 0]

NoOp == [op |-> "none", arg |-> <<>>, pre |-> <<>>, ret |-> <<>>, warn |-> FALSE]

InitBufferPart ==
    /\ requested \in 0..MaxCap
    /\ max_samples = new(requested)
    /\ samples = <<>>
    /\ overflow_logged = FALSE
    /\ nextId = 1
    /\ lastOp = NoOp
    /\ base = <<>>
    /\ pushRun = <<>>
    /\ held = <<>>
    /\ evictedHead = {}
    /\ droppedTail = {}

NoShut == [waiting |-> FALSE, raced |-> FALSE, drains |-> 0, posts |-> 0, requeues |-> 0,
           requeued |-> <<>>, flushBatch |-> <<>>, late |-> {}]

InitCollectorPart ==
    /\ cancelled = FALSE
    /\ wpc = "tick"
    /\ backoff = 1
    /\ wTimer = "pending"
    /\ ppc = "tick"
    /\ pIdx = 1
    /\ pTimer = FALSE
    /\ fails = 0
    /\ sleepRun = <<>>
    /\ prevRun = <<>>
    /\ lastPost = "none"
    /\ accepted = {}
    /\ flushLost = {}
    /\ pushedAtDrain = {}
    /\ shut = NoShut

NoResult == [kind |-> "none", req |-> 0, tag |-> 0, err |-> "none", msg |-> "", after |-> 0]

InitBt2Part ==
    /\ chan = <<>>
    /\ notifyValue = 0
    /\ relayData = 0
    /\ bpc = "idle"
    /\ reqNo = 0
    /\ devPending = {}
    /\ bres = NoResult

InitQueryPart ==
    /\ qpc = 1
    /\ qi = 1
    /\ qInfo = NoInfo
    /\ qLocal = NoLocal
    /\ qFailed = {}
    /\ qMissed = NoMissed
    /\ qFaults = 0
    /\ qClock = 0
    /\ qOut = "running"

\* discover_batteries called with the range lo..=hi (empty when lo > hi)
DiscoverStart(lo, hi) ==
    /\ dLo = lo
    /\ dHi = hi
    /\ dNext = lo
    /\ found = <<>>
    /\ probed = <<>>
    /\ dpc = "scan"

InitDiscoverPart == DiscoverStart(1, 0)

\* Result<Pdu> before deserialize ran
NoPduRes == [kind |-> "none", address |-> 0, function_code |-> 0, payload |-> <<>>,
             code |-> 0]

\* the Pdu F is known, nothing is serialized yet
PduStart(f) ==
    /\ pdu = f
    /\ wire = <<>>
    /\ rx = <<>>
    /\ rxHow = "none"
    /\ pduRes = NoPduRes

InitPduPart == PduStart([address |-> 1, function_code |-> 3, payload |-> <<>>])

\* the relay task was spawned and the transport is alive
InitBt2LifePart ==
    /\ relay = "running"
    /\ dropped = FALSE
    /\ lateSends = 0

NoRhrRes == [kind |-> "none", registers |-> <<>>]

\* read_holding_registers got the response payload p for quantity n
ReadStart(p, n) ==
    /\ respPayload = p
    /\ quantity = n
    /\ rhrRes = NoRhrRes

InitReadPart == ReadStart(<<>>, 0)

NoPdu == [address |-> 0, function_code |-> 0, payload |-> <<>>]

\* the command cmd is about to be built for the device at addr
DeviceStart(cmd, addr) ==
    /\ command = cmd
    /\ devAddr = addr
    /\ requests = <<>>
    /\ devPdu = NoPdu

InitDevicePart == DeviceStart("Shutdown", 1)

NoValue == [kind |-> "none", bits |-> {}, alarms |-> <<>>]
NoRaw == [written |-> FALSE, name |-> "", value |-> {}]

\* the word of a bit-mapped register has been read
AlarmStart(reg, word) ==
    /\ aReg = reg
    /\ aWord = word
    /\ aValue = NoValue
    /\ aRaw = NoRaw
    /\ apc = "read"

InitAlarmPart == AlarmStart("Status1", {})

\* a Value: its variant and, for a number, its magnitude (mV, mA or mAh,
\* thousandths of a degree Celsius, or the integer itself)
Val(kind, n) == [kind |-> kind, n |-> n]

Reg(name, n) == [name |-> name, n |-> n]

NoRegInfo == [address |-> 0, quantity |-> 0, writable |-> FALSE]
NoSerialized == [ok |-> FALSE, err |-> "none", data |-> <<>>]
NoneValue == Val("none", 0)

\* the register r and the value v are about to be looked up and serialized
RegisterStart(r, v) ==
    /\ sReg = r
    /\ sValue = v
    /\ sInfo = NoRegInfo
    /\ sRes = NoSerialized
    /\ sBack = NoneValue
    /\ spc = "start"

InitRegisterPart == RegisterStart(Reg("CellCount", 0), Val("Integer", 0))

NoHanded == [any |-> FALSE, slave |-> 0, address |-> 0, function_code |-> 0]
NoSerRes == [kind |-> "none", address |-> 0, function_code |-> 0, payload |-> <<>>]

\* SerialTransport::new(path, baud_rate, id): attach_slave(port, Slave(id))
SerialStart(id) ==
    /\ slave_id = id
    /\ ctxSlave = id
    /\ handed = NoHanded
    /\ serOps = 0
    /\ serRes = NoSerRes

InitSerialPart == SerialStart(1)

\* write_multiple_registers(slave, addr, values) was called
WriteStart(slave, addr, values) ==
    /\ wmSlave = slave
    /\ wmAddr = addr
    /\ wmValues = values
    /\ wmPdu = NoPdu

InitWritePart == WriteStart(1, 0, <<>>)

\* main was started with --poll-interval poll --buffer-duration minutes
SizeStart(poll, minutes) ==
    /\ argPoll = poll
    /\ argBuffer = minutes
    /\ sizedTo = 0 - 1
    /\ bufCap = 0

InitSizePart == SizeStart(1, 0)

\* Status1::empty(), Status2::empty() and the 0.0 totals new starts from
EmptySummary ==
    [battery_count |-> 0, total_current |-> 0, total_remaining_ah |-> 0,
     total_capacity_ah |-> 0, status1 |-> {}, status2 |-> {}]

InitSummaryPart ==
    /\ batteries = <<>>
    /\ summary = EmptySummary

InitOverflowPart ==
    /\ warnsSince = 0
    /\ evictsSince = 0
    /\ warnsTotal = 0

InitPollPart ==
    /\ pstage = "query"
    /\ registry = [i \in 1..MaxAddrs |-> 0]
    /\ roundLog = <<>>
    /\ roundStart = 1

InitServerPart ==
    /\ srvpc = "bind"
    /\ srvConns = 0
    /\ mainpc = "poller"

InitExtPart == InitDiscoverPart /\ InitPduPart /\ InitBt2LifePart /\ InitReadPart /\ InitDevicePart /\ InitAlarmPart /\ InitRegisterPart /\ InitSerialPart /\ InitWritePart /\ InitSizePart /\ InitSummaryPart /\ InitOverflowPart /\ InitPollPart /\ InitServerPart

InitBuffer == InitBufferPart /\ InitCollectorPart /\ InitBt2Part /\ InitQueryPart
    /\ InitExtPart

\* push of a fresh snapshot by a clone of the buffer
PushFresh ==
    /\ nextId <= MaxIds
    /\ LET s == nextId
           q == push(samples, max_samples, s)
       IN /\ samples' = q
          /\ overflow_logged' = push_latch(samples, max_samples, overflow_logged)
          /\ lastOp' = [op |-> "push", arg |-> <<s>>, pre |-> samples, ret |-> <<>>,
                        warn |-> push_warns(samples, max_samples, overflow_logged)]
          /\ evictedHead' = evictedHead \cup push_evicted(samples, max_samples)
          /\ pushRun' = Append(pushRun, s)
          /\ nextId' = nextId + 1
    /\ UNCHANGED <<max_samples, requested, base, held, droppedTail>>

\* a clone pushes a fresh snapshot
BufPush ==
    /\ PushFresh
    /\ UNCHANGED <<collVars, collHist, bt2Vars, qryVars, extVars>>

\* extend_front of a batch: the batch taken by the last drain_all, or a
\* batch of fresh snapshots of any length up to MaxBatch
ExtendWith(batch, fresh) ==
    LET q == extend_front(samples, max_samples, batch)
    IN /\ samples' = q
       /\ lastOp' = [op |-> "extend_front", arg |-> batch, pre |-> samples,
                     ret |-> <<>>, warn |-> FALSE]
       /\ droppedTail' = droppedTail \cup extend_front_dropped(samples, max_samples, batch)
       /\ base' = q
       /\ pushRun' = <<>>
       /\ nextId' = nextId + fresh
       /\ UNCHANGED <<max_samples, requested, overflow_logged, evictedHead>>

BufRequeue ==
    /\ held # <<>>
    /\ ExtendWith(held, 0)
    /\ held' = <<>>
    /\ UNCHANGED <<collVars, collHist, bt2Vars, qryVars, extVars>>

BufExtendFresh ==
    /\ \E n \in 1..MaxBatch :
         /\ nextId + n - 1 <= MaxIds
         /\ ExtendWith([i \in 1..n |-> nextId + i - 1], n)
    /\ UNCHANGED <<held, collVars, collHist, bt2Vars, qryVars, extVars>>

\* drain_all by a consumer that owns nothing
DrainAll ==
    /\ held = <<>>
    /\ samples' = drain_all_rest(samples)
    /\ held' = drain_all_ret(samples)
    /\ overflow_logged' = FALSE
    /\ lastOp' = [op |-> "drain_all", arg |-> <<>>, pre |-> samples,
                  ret |-> drain_all_ret(samples), warn |-> FALSE]
    /\ base' = drain_all_rest(samples)
    /\ pushRun' = <<>>
    /\ UNCHANGED <<max_samples, requested, nextId, evictedHead, droppedTail>>

BufDrainAll ==
    /\ DrainAll
    /\ UNCHANGED <<collVars, collHist, bt2Vars, qryVars, extVars>>

\* the consumer is done with the batch it took
BufConsume ==
    /\ held # <<>>
    /\ held' = <<>>
    /\ UNCHANGED <<bufVars, nextId, lastOp, base, pushRun, evictedHead, droppedTail>>
    /\ UNCHANGED <<collVars, collHist, bt2Vars, qryVars, extVars>>

NextBuffer ==
    \/ BufPush
    \/ BufRequeue
    \/ BufExtendFresh
    \/ BufDrainAll
    \/ BufConsume

SpecBuffer == InitBuffer /\ [][NextBuffer]_vars

----------------------------------------------------------------------------
\* The overflow warning of SampleBuffer::push, under pushes, drains and
\* requeues in any order.  push and drain_all each run under the mutex.

InitOverflow ==
    /\ InitBufferPart /\ InitCollectorPart /\ InitBt2Part /\ InitQueryPart
    /\ InitDiscoverPart /\ InitPduPart /\ InitBt2LifePart /\ InitReadPart /\ InitDevicePart /\ InitAlarmPart /\ InitRegisterPart /\ InitSerialPart /\ InitWritePart /\ InitSizePart /\ InitSummaryPart /\ InitPollPart /\ InitServerPart
    /\ InitOverflowPart /\ InitPollPart /\ InitServerPart

\* push, with the tracing::warn! it may make
OverflowPush ==
    /\ PushFresh
    /\ warnsSince' = IF push_warns(samples, max_samples, overflow_logged)
                     THEN warnsSince + 1 ELSE warnsSince
    /\ warnsTotal' = IF push_warns(samples, max_samples, overflow_logged)
                     THEN warnsTotal + 1 ELSE warnsTotal
    /\ evictsSince' = IF push_evicted(samples, max_samples) # {}
                      THEN evictsSince + 1 ELSE evictsSince
    /\ UNCHANGED <<collVars, collHist, bt2Vars, qryVars, discVars, pduVars, bt2Life, readVars, devVars, alarmVars, regVars, serVars, wmVars, sizeVars, sumVars, pollVars, srvVars>>

\* drain_all
OverflowDrainAll ==
    /\ DrainAll
    /\ warnsSince' = 0
    /\ evictsSince' = 0
    /\ UNCHANGED warnsTotal
    /\ UNCHANGED <<collVars, collHist, bt2Vars, qryVars, discVars, pduVars, bt2Life, readVars, devVars, alarmVars, regVars, serVars, wmVars, sizeVars, sumVars, pollVars, srvVars>>

NextOverflow ==
    \/ OverflowPush
    \/ OverflowDrainAll
    \/ BufRequeue
    \/ BufConsume

SpecOverflow == InitOverflow /\ [][NextOverflow]_vars

----------------------------------------------------------------------------
\* The collector: run_poller pushes, VmWriter::run drains and posts, the
\* ctrl-c task fires the token (src/bin/renogy-bms-collector.rs,
\* src/collector/writer.rs).

\* Duration::from_secs(60), the cap of the backoff
max_backoff == 60

\* backoff doubled without the cap.
next_backoff_uncapped(b) == b * 2

\* backoff = (backoff * 2).min(max_backoff)
next_backoff(b) == Min(b * 2, max_backoff)

\* a failed POST that does not put the batch back.
requeue_dropped(q, cap, batch) == q

\* a failed POST requeues the batch behind what was pushed meanwhile.
requeue_behind(q, cap, batch) == FirstN(q \o batch, cap)

\* Err(e) => self.buffer.extend_front(samples)
requeue(q, cap, batch) == extend_front(q, cap, batch)

InitCollector == InitBufferPart /\ InitCollectorPart /\ InitBt2Part /\ InitQueryPart
    /\ InitExtPart

\* a sleep created by a select! that is entered after the token fired cannot
\* complete before the cancelled() branch is seen ready
new_sleep == IF cancelled THEN "late" ELSE "pending"

\* ctrl_c: cancel_signal.cancel()
CancelToken ==
    /\ ~cancelled
    /\ cancelled' = TRUE
    /\ shut' = [shut EXCEPT !.waiting = wpc \in {"tick", "backoff"} /\ wTimer = "pending"]
    /\ UNCHANGED <<bufVars, histVars, wpc, backoff, wTimer, ppc, pIdx, pTimer>>
    /\ UNCHANGED <<fails, sleepRun, prevRun, lastPost, accepted, flushLost,
                   pushedAtDrain>>

Cancel ==
    /\ CancelToken
    /\ UNCHANGED <<bt2Vars, qryVars, extVars>>

\* the deadline of the sleep the writer selects on passes
WriterTimer ==
    /\ UNCHANGED <<bt2Vars, qryVars, extVars>>
    /\ wpc \in {"tick", "backoff"}
    /\ wTimer = "pending"
    /\ wTimer' = "ready"
    /\ UNCHANGED <<bufVars, histVars, cancelled, wpc, backoff, ppc, pIdx, pTimer, collHist>>

\* select! took the sleep(1 s) branch: drain_all, continue when empty
WriterTickEmpty ==
    /\ UNCHANGED <<bt2Vars, qryVars, extVars>>
    /\ wpc = "tick"
    /\ wTimer = "ready"
    /\ drain_all_ret(samples) = <<>>
    /\ samples' = drain_all_rest(samples)
    /\ overflow_logged' = FALSE
    /\ wTimer' = new_sleep
    /\ shut' = [shut EXCEPT !.drains = IF cancelled THEN @ + 1 ELSE @,
                            !.raced = @ \/ cancelled]
    /\ UNCHANGED <<max_samples, requested, histVars>>
    /\ UNCHANGED <<cancelled, wpc, backoff, ppc, pIdx, pTimer>>
    /\ UNCHANGED <<fails, sleepRun, prevRun, lastPost, accepted, flushLost,
                   pushedAtDrain>>

\* select! took the sleep(1 s) branch: drain_all, then write_samples
WriterTickDrain ==
    /\ UNCHANGED <<bt2Vars, qryVars, extVars>>
    /\ wpc = "tick"
    /\ wTimer = "ready"
    /\ drain_all_ret(samples) # <<>>
    /\ held' = drain_all_ret(samples)
    /\ samples' = drain_all_rest(samples)
    /\ overflow_logged' = FALSE
    /\ wpc' = "post"
    /\ wTimer' = "pending"
    /\ pushedAtDrain' = 1..(nextId - 1)
    /\ shut' = [shut EXCEPT !.drains = IF cancelled THEN @ + 1 ELSE @,
                            !.posts = IF cancelled THEN @ + 1 ELSE @,
                            !.raced = @ \/ cancelled,
                            !.requeued = <<>>]
    /\ UNCHANGED <<max_samples, requested>>
    /\ UNCHANGED <<nextId, lastOp, base, pushRun, evictedHead, droppedTail>>
    /\ UNCHANGED <<cancelled, backoff, ppc, pIdx, pTimer>>
    /\ UNCHANGED <<fails, sleepRun, prevRun, lastPost, accepted, flushLost>>

\* write_samples returned Ok(()): backoff = 1 s
WriterPostOk ==
    /\ UNCHANGED <<bt2Vars, qryVars, extVars>>
    /\ wpc = "post"
    /\ backoff' = 1
    /\ wpc' = "tick"
    /\ wTimer' = new_sleep
    /\ accepted' = accepted \cup Range(held)
    /\ held' = <<>>
    /\ fails' = 0
    /\ prevRun' = sleepRun
    /\ sleepRun' = <<>>
    /\ lastPost' = "ok"
    /\ UNCHANGED <<bufVars, nextId, lastOp, base, pushRun, evictedHead, droppedTail>>
    /\ UNCHANGED <<cancelled, ppc, pIdx, pTimer>>
    /\ UNCHANGED <<flushLost, pushedAtDrain, shut>>

\* write_samples returned Err: extend_front(samples), then select! on
\* sleep(backoff)
WriterPostErr(limit) ==
    /\ UNCHANGED <<bt2Vars, qryVars, extVars>>
    /\ wpc = "post"
    /\ fails < limit
    /\ samples' = requeue(samples, max_samples, held)
    /\ droppedTail' = droppedTail \cup extend_front_dropped(samples, max_samples, held)
    /\ held' = <<>>
    /\ wpc' = "backoff"
    /\ wTimer' = new_sleep
    /\ fails' = fails + 1
    /\ sleepRun' = Append(sleepRun, backoff)
    /\ lastPost' = "err"
    /\ shut' = [shut EXCEPT !.requeues = IF cancelled THEN @ + 1 ELSE @,
                            !.requeued = held]
    /\ UNCHANGED <<max_samples, overflow_logged, requested>>
    /\ UNCHANGED <<nextId, lastOp, base, pushRun, evictedHead>>
    /\ UNCHANGED <<cancelled, backoff, ppc, pIdx, pTimer>>
    /\ UNCHANGED <<prevRun, accepted, flushLost, pushedAtDrain>>

\* select! took the sleep(backoff) branch: backoff doubles, capped
WriterBackoffDone ==
    /\ UNCHANGED <<bt2Vars, qryVars, extVars>>
    /\ wpc = "backoff"
    /\ wTimer = "ready"
    /\ backoff' = next_backoff(backoff)
    /\ wpc' = "tick"
    /\ wTimer' = new_sleep
    /\ shut' = [shut EXCEPT !.raced = @ \/ cancelled]
    /\ UNCHANGED <<bufVars, histVars, cancelled, ppc, pIdx, pTimer>>
    /\ UNCHANGED <<fails, sleepRun, prevRun, lastPost, accepted, flushLost,
                   pushedAtDrain>>

\* select! took the cancelled() branch (either select!): flush_on_shutdown
\* drains; nothing to flush
WriterFlushEmpty ==
    /\ UNCHANGED <<bt2Vars, qryVars, extVars>>
    /\ wpc \in {"tick", "backoff"}
    /\ cancelled
    /\ drain_all_ret(samples) = <<>>
    /\ samples' = drain_all_rest(samples)
    /\ overflow_logged' = FALSE
    /\ wpc' = "done"
    /\ shut' = [shut EXCEPT !.drains = @ + 1]
    /\ UNCHANGED <<max_samples, requested, histVars>>
    /\ UNCHANGED <<cancelled, backoff, wTimer, ppc, pIdx, pTimer>>
    /\ UNCHANGED <<fails, sleepRun, prevRun, lastPost, accepted, flushLost,
                   pushedAtDrain>>

\* select! took the cancelled() branch: flush_on_shutdown drains and starts
\* the final write_samples under timeout(30 s)
WriterFlushDrain ==
    /\ UNCHANGED <<bt2Vars, qryVars, extVars>>
    /\ wpc \in {"tick", "backoff"}
    /\ cancelled
    /\ drain_all_ret(samples) # <<>>
    /\ held' = drain_all_ret(samples)
    /\ samples' = drain_all_rest(samples)
    /\ overflow_logged' = FALSE
    /\ wpc' = "flush"
    /\ pushedAtDrain' = 1..(nextId - 1)
    /\ shut' = [shut EXCEPT !.drains = @ + 1, !.posts = @ + 1,
                            !.flushBatch = drain_all_ret(samples)]
    /\ UNCHANGED <<max_samples, requested>>
    /\ UNCHANGED <<nextId, lastOp, base, pushRun, evictedHead, droppedTail>>
    /\ UNCHANGED <<cancelled, backoff, wTimer, ppc, pIdx, pTimer>>
    /\ UNCHANGED <<fails, sleepRun, prevRun, lastPost, accepted, flushLost>>

\* the final write: Ok(Ok(()))
WriterFlushOk ==
    /\ UNCHANGED <<bt2Vars, qryVars, extVars>>
    /\ wpc = "flush"
    /\ accepted' = accepted \cup Range(held)
    /\ held' = <<>>
    /\ wpc' = "done"
    /\ UNCHANGED <<bufVars, nextId, lastOp, base, pushRun, evictedHead, droppedTail>>
    /\ UNCHANGED <<cancelled, backoff, wTimer, ppc, pIdx, pTimer>>
    /\ UNCHANGED <<fails, sleepRun, prevRun, lastPost, flushLost,
                   pushedAtDrain, shut>>

\* the final write: Ok(Err(e)) or Err(_) (the 30 s timeout); the batch is
\* dropped
WriterFlushFail ==
    /\ UNCHANGED <<bt2Vars, qryVars, extVars>>
    /\ wpc = "flush"
    /\ flushLost' = flushLost \cup Range(held)
    /\ held' = <<>>
    /\ wpc' = "done"
    /\ UNCHANGED <<bufVars, nextId, lastOp, base, pushRun, evictedHead, droppedTail>>
    /\ UNCHANGED <<cancelled, backoff, wTimer, ppc, pIdx, pTimer>>
    /\ UNCHANGED <<fails, sleepRun, prevRun, lastPost, accepted,
                   pushedAtDrain, shut>>

\* interval.tick() becomes ready
PollerTimerReady ==
    /\ ppc = "tick"
    /\ ~pTimer
    /\ pTimer' = TRUE
    /\ UNCHANGED <<bufVars, histVars, cancelled, wpc, backoff, wTimer, ppc, pIdx, collHist>>

PollerTimer ==
    /\ PollerTimerReady
    /\ UNCHANGED <<bt2Vars, qryVars, extVars>>

\* select! took the interval.tick() branch
PollerTickTaken ==
    /\ ppc = "tick"
    /\ pTimer
    /\ ppc' = "polling"
    /\ pIdx' = 1
    /\ pTimer' = FALSE
    /\ UNCHANGED <<bufVars, histVars, cancelled, wpc, backoff, wTimer, collHist>>

PollerTick ==
    /\ PollerTickTaken
    /\ UNCHANGED <<bt2Vars, qryVars, extVars>>

PollerAdvance ==
    /\ pIdx' = IF pIdx = MaxAddrs THEN 1 ELSE pIdx + 1
    /\ ppc' = IF pIdx = MaxAddrs THEN "tick" ELSE "polling"

\* query_battery(addr) returned Some(info): metrics.update, buffer.push
PollerPushed(limit) ==
    /\ ppc = "polling"
    /\ nextId <= limit
    /\ samples' = push(samples, max_samples, nextId)
    /\ evictedHead' = evictedHead \cup push_evicted(samples, max_samples)
    /\ overflow_logged' = push_latch(samples, max_samples, overflow_logged)
    /\ nextId' = nextId + 1
    /\ shut' = [shut EXCEPT !.late = IF wpc \in {"flush", "done"}
                                     THEN @ \cup {nextId} ELSE @]
    /\ PollerAdvance
    /\ UNCHANGED <<max_samples, requested, lastOp, base, pushRun, held, droppedTail>>
    /\ UNCHANGED <<cancelled, wpc, backoff, wTimer, pTimer>>
    /\ UNCHANGED <<fails, sleepRun, prevRun, lastPost, accepted, flushLost,
                   pushedAtDrain>>

PollerPush(limit) ==
    /\ PollerPushed(limit)
    /\ UNCHANGED <<bt2Vars, qryVars, extVars>>

\* a failed query that ends the round (break)
PollerSkipped_break ==
    /\ ppc = "polling"
    /\ pIdx' = 1
    /\ ppc' = "tick"
    /\ UNCHANGED <<bufVars, histVars, cancelled, wpc, backoff, wTimer, pTimer, collHist>>

\* query_battery(addr) returned None: nothing is pushed
PollerSkipped ==
    /\ ppc = "polling"
    /\ PollerAdvance
    /\ UNCHANGED <<bufVars, histVars, cancelled, wpc, backoff, wTimer, pTimer, collHist>>

PollerSkip ==
    /\ PollerSkipped
    /\ UNCHANGED <<bt2Vars, qryVars, extVars>>

\* a poller that starts the next round when the token has fired
PollerStopped_polls ==
    /\ ppc = "tick"
    /\ cancelled
    /\ ppc' = "polling"
    /\ pIdx' = 1
    /\ pTimer' = FALSE
    /\ UNCHANGED <<bufVars, histVars, cancelled, wpc, backoff, wTimer, collHist>>

\* select! took the cancelled() branch: "Poller stopping"
PollerStopped ==
    /\ ppc = "tick"
    /\ cancelled
    /\ ppc' = "done"
    /\ UNCHANGED <<bufVars, histVars, cancelled, wpc, backoff, wTimer, pIdx, pTimer, collHist>>

PollerStop ==
    /\ PollerStopped
    /\ UNCHANGED <<bt2Vars, qryVars, extVars>>

\* main has awaited run_poller and the writer's handle
CollectorEnded == ppc = "done" /\ wpc = "done"

NextCollector ==
    \/ Cancel
    \/ WriterTimer
    \/ WriterTickEmpty
    \/ WriterTickDrain
    \/ WriterPostOk
    \/ WriterPostErr(MaxRetry)
    \/ WriterBackoffDone
    \/ WriterFlushEmpty
    \/ WriterFlushDrain
    \/ WriterFlushOk
    \/ WriterFlushFail
    \/ PollerTimer
    \/ PollerTick
    \/ PollerPush(MaxSnap)
    \/ PollerSkip
    \/ PollerStop

SpecCollector == InitCollector /\ [][NextCollector]_vars

\* The same tasks with a sink that stays down for long and few snapshots:
\* the run loop's backoff reaches its cap.
NextBackoff ==
    \/ Cancel
    \/ WriterTimer
    \/ WriterTickEmpty
    \/ WriterTickDrain
    \/ WriterPostOk
    \/ WriterPostErr(MaxFails)
    \/ WriterBackoffDone
    \/ WriterFlushEmpty
    \/ WriterFlushDrain
    \/ WriterFlushOk
    \/ WriterFlushFail
    \/ PollerTimer
    \/ PollerTick
    \/ PollerPush(MaxFew)
    \/ PollerSkip
    \/ PollerStop

SpecBackoff == InitCollector /\ [][NextBackoff]_vars

----------------------------------------------------------------------------
\* run_poller alone (src/bin/renogy-bms-collector.rs), with the registry and
\* the queries of each round recorded.

InitPoller ==
    /\ InitBufferPart /\ InitCollectorPart /\ InitBt2Part /\ InitQueryPart
    /\ InitDiscoverPart /\ InitPduPart /\ InitBt2LifePart /\ InitReadPart /\ InitDevicePart /\ InitAlarmPart /\ InitRegisterPart /\ InitSerialPart /\ InitWritePart /\ InitSizePart /\ InitSummaryPart /\ InitOverflowPart /\ InitServerPart
    /\ InitPollPart /\ InitServerPart

PollFrame == UNCHANGED <<bt2Vars, qryVars, discVars, pduVars, bt2Life, readVars, devVars, alarmVars, regVars, serVars, wmVars, sizeVars, sumVars, ovVars, srvVars>>

\* ctrl_c: cancel_signal.cancel()
PollCancel ==
    /\ CancelToken
    /\ UNCHANGED pollVars
    /\ PollFrame

\* interval.tick() becomes ready
PollTimer ==
    /\ PollerTimerReady
    /\ UNCHANGED pollVars
    /\ PollFrame

\* select! took the interval.tick() branch: for &addr in addresses
PollTick ==
    /\ PollerTickTaken
    /\ roundLog' = <<>>
    /\ roundStart' = nextId
    /\ UNCHANGED <<pstage, registry>>
    /\ PollFrame

\* query_battery(addr) returned Some(info): metrics.update(&info)
PollUpdate ==
    /\ ppc = "polling"
    /\ pstage = "query"
    /\ nextId <= MaxSnap
    /\ registry' = [registry EXCEPT ![pIdx] = nextId]
    /\ pstage' = "push"
    /\ UNCHANGED <<roundLog, roundStart, coreVars, srvVars>>
    /\ PollFrame

\* buffer.push(info)
PollPush ==
    /\ pstage = "push"
    /\ PollerPushed(MaxSnap)
    /\ pstage' = "query"
    /\ roundLog' = Append(roundLog, [idx |-> pIdx, some |-> TRUE, id |-> nextId])
    /\ UNCHANGED <<registry, roundStart>>
    /\ PollFrame

\* query_battery(addr) returned None: the warning, nothing else
PollNone ==
    /\ pstage = "query"
    /\ PollerSkipped
    /\ roundLog' = Append(roundLog, [idx |-> pIdx, some |-> FALSE, id |-> 0])
    /\ UNCHANGED <<pstage, registry, roundStart>>
    /\ PollFrame

\* select! took the cancelled() branch
PollStop ==
    /\ PollerStopped
    /\ UNCHANGED pollVars
    /\ PollFrame

NextPoller ==
    \/ PollCancel
    \/ PollTimer
    \/ PollTick
    \/ PollUpdate
    \/ PollPush
    \/ PollNone
    \/ PollStop

SpecPoller == InitPoller /\ [][NextPoller]_vars

----------------------------------------------------------------------------
\* The three tasks of the collector and main's end: VmWriter::run,
\* run_poller, MetricsServer::run (src/collector/server.rs), and the joins
\* at the end of main.

InitShutdown ==
    /\ InitBufferPart /\ requested = 1
    /\ InitCollectorPart /\ InitBt2Part /\ InitQueryPart
    /\ InitExtPart

ServerFrame == UNCHANGED <<coreVars, discVars, pduVars, bt2Life, readVars, devVars, alarmVars, regVars, serVars, wmVars, sizeVars, sumVars, ovVars, pollVars>>

\* TcpListener::bind(addr).await returned the listener
ServerBind ==
    /\ srvpc = "bind"
    /\ srvpc' = "serving"
    /\ UNCHANGED <<srvConns, mainpc>>
    /\ ServerFrame

\* TcpListener::bind(addr).await? returned the error: run returns Err
ServerBindErr ==
    /\ srvpc = "bind"
    /\ srvpc' = "done"
    /\ UNCHANGED <<srvConns, mainpc>>
    /\ ServerFrame

\* a scrape request is accepted
ServerAccept ==
    /\ srvpc = "serving"
    /\ srvConns < MaxConns
    /\ srvConns' = srvConns + 1
    /\ UNCHANGED <<srvpc, mainpc>>
    /\ ServerFrame

\* metrics_handler answered a request
ServerRespond ==
    /\ srvpc \in {"serving", "draining"}
    /\ srvConns > 0
    /\ srvConns' = srvConns - 1
    /\ UNCHANGED <<srvpc, mainpc>>
    /\ ServerFrame

\* with_graceful_shutdown: cancelled_owned() completed, no request is
\* accepted any more
ServerShutdown ==
    /\ srvpc = "serving"
    /\ cancelled
    /\ srvpc' = "draining"
    /\ UNCHANGED <<srvConns, mainpc>>
    /\ ServerFrame

\* axum::serve returned once the accepted requests were answered
ServerStop ==
    /\ srvpc = "draining"
    /\ srvConns = 0
    /\ srvpc' = "done"
    /\ UNCHANGED <<srvConns, mainpc>>
    /\ ServerFrame

\* run_poller(..).await returned
MainPollerReturned ==
    /\ mainpc = "poller"
    /\ ppc = "done"
    /\ mainpc' = "joining"
    /\ UNCHANGED <<srvpc, srvConns>>
    /\ ServerFrame

\* for handle in handles { handle.await.ok(); }, "Shutdown complete"
MainJoined ==
    /\ mainpc = "joining"
    /\ wpc = "done"
    /\ srvpc = "done"
    /\ mainpc' = "done"
    /\ UNCHANGED <<srvpc, srvConns>>
    /\ ServerFrame

\* the steps the writer task takes by itself
WriterSteps ==
    \/ WriterTickEmpty
    \/ WriterTickDrain
    \/ WriterPostOk
    \/ WriterPostErr(MaxDown)
    \/ WriterBackoffDone
    \/ WriterFlushEmpty
    \/ WriterFlushDrain
    \/ WriterFlushOk
    \/ WriterFlushFail

\* the end of a query_battery call
PollerQueried ==
    \/ PollerPush(MaxFew)
    \/ PollerSkip

NextShutdown ==
    \/ Cancel
    \/ WriterTimer
    \/ WriterSteps
    \/ PollerTimer
    \/ PollerTick
    \/ PollerQueried
    \/ PollerStop
    \/ ServerBind
    \/ ServerBindErr
    \/ ServerAccept
    \/ ServerRespond
    \/ ServerShutdown
    \/ ServerStop
    \/ MainPollerReturned
    \/ MainJoined

\* Every task that can run does run; every query, POST and scrape request
\* completes or times out; a select! that keeps finding cancelled() ready
\* takes that branch in the end (the branch is picked at random among the
\* ready ones).
ShutdownFairness ==
    /\ WF_vars(WriterSteps)
    /\ WF_vars(PollerQueried)
    /\ SF_vars(PollerStop)
    /\ WF_vars(ServerBind \/ ServerBindErr)
    /\ WF_vars(ServerRespond)
    /\ WF_vars(ServerShutdown)
    /\ WF_vars(ServerStop)
    /\ WF_vars(MainPollerReturned)
    /\ WF_vars(MainJoined)

SpecShutdown == InitShutdown /\ [][NextShutdown]_vars /\ ShutdownFairness

----------------------------------------------------------------------------
\* Bt2Transport: send_pdu, the notification relay task and the BT-2 device
\* (src/bt2.rs). A payload is identified by the request it answers.

\* mpsc::channel(16)
ChanCap == 16

\* const DEFAULT_TIMEOUT: Duration = Duration::from_secs(5)
DEFAULT_TIMEOUT == 5

\* connect returns the transport whether or not the relay task got as far as
\* its loop (it returns, dropping the Sender, when the proxy cannot be built
\* or start_notify fails)
InitBt2 ==
    /\ InitBufferPart /\ requested = 1
    /\ InitCollectorPart /\ InitBt2Part /\ InitQueryPart
    /\ InitDiscoverPart /\ InitPduPart /\ InitReadPart /\ InitDevicePart /\ InitAlarmPart /\ InitRegisterPart /\ InitSerialPart /\ InitWritePart /\ InitSizePart /\ InitSummaryPart /\ InitOverflowPart /\ InitPollPart /\ InitServerPart
    /\ relay \in {"running", "exited"}
    /\ dropped = FALSE
    /\ lateSends = 0

\* the errors of the wait with the variants exchanged for Bluetooth(..).
recv_error_bluetooth(outcome) ==
    IF outcome = "elapsed"
    THEN [err |-> "Bluetooth", msg |-> "timeout"]
    ELSE [err |-> "Bluetooth", msg |-> "channel closed"]

\* timeout(..).await.map_err(..)?.ok_or_else(..)?: the error for an elapsed
\* timeout and for recv() returning None
recv_error(outcome) ==
    IF outcome = "elapsed"
    THEN [err |-> "Io", msg |-> "Timeout waiting for BT-2 response"]
    ELSE [err |-> "Io", msg |-> "Notification channel closed"]

\* the relay task: notify_char.value() holds a non-empty payload
RelayRead ==
    /\ relay = "running"
    /\ relayData = 0
    /\ notifyValue # 0
    /\ relayData' = notifyValue
    /\ UNCHANGED <<chan, notifyValue, bpc, reqNo, devPending, bres>>
    /\ UNCHANGED <<bufVars, histVars, collVars, collHist, qryVars, extVars>>

\* the relay task: tx.send(data.clone()).await completes when the channel
\* has room
RelaySend ==
    /\ ~dropped
    /\ relayData # 0
    /\ Len(chan) < ChanCap
    /\ chan' = Append(chan, relayData)
    /\ relayData' = 0
    /\ UNCHANGED <<notifyValue, bpc, reqNo, devPending, bres>>
    /\ UNCHANGED <<bufVars, histVars, collVars, collHist, qryVars, extVars>>

\* the device answers the oldest request it was sent: the notify
\* characteristic's Value becomes that response
DeviceRespond ==
    /\ devPending # {}
    /\ LET r == CHOOSE x \in devPending : \A y \in devPending : x <= y
       IN /\ notifyValue' = r
          /\ devPending' = devPending \ {r}
    /\ UNCHANGED <<chan, relayData, bpc, reqNo, bres>>
    /\ UNCHANGED <<bufVars, histVars, collVars, collHist, qryVars, extVars>>

\* send_pdu: serialize, then while notify_rx.try_recv().is_ok() {}
SendPduDrain ==
    /\ ~dropped
    /\ bpc = "idle"
    /\ reqNo < MaxReq
    /\ reqNo' = reqNo + 1
    /\ chan' = <<>>
    /\ bpc' = "drained"
    /\ UNCHANGED <<notifyValue, relayData, devPending, bres>>
    /\ UNCHANGED <<bufVars, histVars, collVars, collHist, qryVars, extVars>>

\* send_pdu: get_write_proxy().await returned the proxy
SendPduProxy ==
    /\ bpc = "drained"
    /\ bpc' = "proxy"
    /\ UNCHANGED <<chan, notifyValue, relayData, reqNo, devPending, bres>>
    /\ UNCHANGED <<bufVars, histVars, collVars, collHist, qryVars, extVars>>

\* send_pdu: write_value(frame).await succeeded
SendPduWrite ==
    /\ bpc = "proxy"
    /\ devPending' = devPending \cup {reqNo}
    /\ bpc' = "written"
    /\ UNCHANGED <<chan, notifyValue, relayData, reqNo, bres>>
    /\ UNCHANGED <<bufVars, histVars, collVars, collHist, qryVars, extVars>>

\* send_pdu: get_write_proxy or write_value failed: Err(Io)
SendPduWriteErr ==
    /\ bpc \in {"drained", "proxy"}
    /\ bres' = [NoResult EXCEPT !.kind = "io", !.req = reqNo, !.err = "Io"]
    /\ bpc' = "idle"
    /\ UNCHANGED <<chan, notifyValue, relayData, reqNo, devPending>>
    /\ UNCHANGED <<bufVars, histVars, collVars, collHist, qryVars, extVars>>

\* send_pdu: timeout(self.timeout, notify_rx.recv()) yields the oldest item
SendPduRecv ==
    /\ bpc = "written"
    /\ chan # <<>>
    /\ bres' = [NoResult EXCEPT !.kind = "ok", !.req = reqNo, !.tag = Head(chan)]
    /\ chan' = Tail(chan)
    /\ bpc' = "idle"
    /\ UNCHANGED <<notifyValue, relayData, reqNo, devPending>>
    /\ UNCHANGED <<bufVars, histVars, collVars, collHist, qryVars, extVars>>

\* send_pdu: the timeout elapses with the channel empty
SendPduTimeout ==
    /\ bpc = "written"
    /\ chan = <<>>
    /\ relay = "running"
    /\ bres' = [NoResult EXCEPT !.kind = "timeout", !.req = reqNo,
                                !.err = recv_error("elapsed").err,
                                !.msg = recv_error("elapsed").msg,
                                !.after = DEFAULT_TIMEOUT]
    /\ bpc' = "idle"
    /\ UNCHANGED <<chan, notifyValue, relayData, reqNo, devPending>>
    /\ UNCHANGED <<bufVars, histVars, collVars, collHist, qryVars, extVars>>

\* send_pdu: recv() returns None: the channel is empty and its Sender is gone
SendPduClosed ==
    /\ bpc = "written"
    /\ chan = <<>>
    /\ relay = "exited"
    /\ bres' = [NoResult EXCEPT !.kind = "closed", !.req = reqNo,
                                !.err = recv_error("closed").err,
                                !.msg = recv_error("closed").msg]
    /\ bpc' = "idle"
    /\ UNCHANGED <<chan, notifyValue, relayData, reqNo, devPending>>
    /\ UNCHANGED <<bufVars, histVars, collVars, collHist, qryVars, extVars>>

\* the Bt2Transport is dropped: its fields are dropped, the Receiver with
\* them; nothing is done about the relay task
Bt2Drop ==
    /\ ~dropped
    /\ bpc = "idle"
    /\ dropped' = TRUE
    /\ chan' = <<>>
    /\ UNCHANGED <<notifyValue, relayData, bpc, reqNo, devPending, bres>>
    /\ UNCHANGED <<relay, lateSends, discVars, pduVars, readVars, devVars, alarmVars, regVars, serVars, wmVars, sizeVars, sumVars, ovVars, pollVars, srvVars>>
    /\ UNCHANGED <<bufVars, histVars, collVars, collHist, qryVars>>

\* the relay task after the drop: let _ = tx.send(data.clone()).await
\* returns Err at once, the loop goes on
RelaySendClosed ==
    /\ dropped
    /\ relayData # 0
    /\ lateSends < MaxLate
    /\ lateSends' = lateSends + 1
    /\ relayData' = 0
    /\ UNCHANGED <<chan, notifyValue, bpc, reqNo, devPending, bres>>
    /\ UNCHANGED <<relay, dropped, discVars, pduVars, readVars, devVars, alarmVars, regVars, serVars, wmVars, sizeVars, sumVars, ovVars, pollVars, srvVars>>
    /\ UNCHANGED <<bufVars, histVars, collVars, collHist, qryVars>>

NextBt2 ==
    \/ RelayRead
    \/ RelaySend
    \/ DeviceRespond
    \/ SendPduDrain
    \/ SendPduProxy
    \/ SendPduWrite
    \/ SendPduWriteErr
    \/ SendPduRecv
    \/ SendPduTimeout
    \/ SendPduClosed
    \/ Bt2Drop
    \/ RelaySendClosed

SpecBt2 == InitBt2 /\ [][NextBt2]_vars

----------------------------------------------------------------------------
\* Bt2Transport::read_holding_registers (src/bt2.rs) once send_pdu returned
\* Ok(response): the parsing of response.payload.

\* u16::from_be_bytes
from_be_bytes(hi, lo) == hi * 256 + lo

\* for i in 0..quantity: offset = 1 + i * 2; a register is pushed when
\* offset + 1 < payload.len()
RECURSIVE rhr_registers(_, _, _)
rhr_registers(payload, n, i) ==
    IF i >= n THEN <<>>
    ELSE LET offset == 1 + i * 2
         IN (IF offset + 1 < Len(payload)
             THEN <<from_be_bytes(payload[offset + 1], payload[offset + 2])>>
             ELSE <<>>)
            \o rhr_registers(payload, n, i + 1)

\* the parsing without the test of the byte count.
rhr_parse_unchecked(payload, n) ==
    IF payload = <<>> THEN [NoRhrRes EXCEPT !.kind = "InvalidData"]
    ELSE [kind |-> "Ok", registers |-> rhr_registers(payload, n, 0)]

\* the two length tests, then the registers
rhr_parse(payload, n) ==
    IF payload = <<>> THEN [NoRhrRes EXCEPT !.kind = "InvalidData"]
    ELSE LET byte_count == payload[1]
         IN IF Len(payload) < 1 + byte_count
            THEN [NoRhrRes EXCEPT !.kind = "InvalidData"]
            ELSE [kind |-> "Ok", registers |-> rhr_registers(payload, n, 0)]

\* the bytes of a response payload
RespBytes == 0..4
RespPayloads == UNION {[1..n -> RespBytes] : n \in 0..MaxResp}

InitBt2Read ==
    /\ InitBufferPart /\ requested = 1
    /\ InitCollectorPart /\ InitBt2Part /\ InitQueryPart
    /\ InitDiscoverPart /\ InitPduPart /\ InitBt2LifePart /\ InitDevicePart /\ InitAlarmPart /\ InitRegisterPart /\ InitSerialPart /\ InitWritePart /\ InitSizePart /\ InitSummaryPart /\ InitOverflowPart /\ InitPollPart /\ InitServerPart
    /\ \E p \in RespPayloads, n \in 0..MaxQuantity : ReadStart(p, n)

\* read_holding_registers from the line after send_pdu(&pdu).await? on
Bt2ReadParse ==
    /\ rhrRes = NoRhrRes
    /\ rhrRes' = rhr_parse(respPayload, quantity)
    /\ UNCHANGED <<respPayload, quantity, coreVars, discVars, pduVars, bt2Life, devVars, alarmVars, regVars, serVars, wmVars, sizeVars, sumVars, ovVars, pollVars, srvVars>>

NextBt2Read == Bt2ReadParse

SpecBt2Read == InitBt2Read /\ [][NextBt2Read]_vars

----------------------------------------------------------------------------
\* query_battery (src/query.rs): one call, its reads one after the other.

\* the values a device may report for its counts
CellCountValues == {0, 2, 17}
TempCountValues == {0, 17}
SensorCountValues == {0, 3}

\* the reads of query_battery in the order of the code: the register, the
\* field (or local) it fills, what a failure does, and the variant the
\* read_* helper asks for
Rd(reg, field, policy, helper) ==
    [reg |-> reg, field |-> field, policy |-> policy, helper |-> helper]

ReadOrder ==
    << Rd("SnNumber", "serial", "abort", "String"),
       Rd("BatteryName", "model", "default", "String"),
       Rd("SoftwareVersion", "software_version", "default", "String"),
       Rd("ManufacturerName", "manufacturer", "default", "String"),
       Rd("CellCount", "cell_count", "abort", "Integer"),
       Rd("CellVoltage", "cell_voltages", "series", "ElectricPotential"),
       Rd("ModuleVoltage", "module_voltage", "default", "ElectricPotential"),
       Rd("Current", "current", "default", "ElectricCurrent"),
       Rd("RemainingCapacity", "remaining_capacity", "default", "ElectricCurrent"),
       Rd("TotalCapacity", "total_capacity", "default", "ElectricCurrent"),
       Rd("CycleNumber", "cycle_count", "default", "Integer"),
       Rd("CellTemperatureCount", "cell_temp_count", "count", "Integer"),
       Rd("CellTemperature", "cell_temperatures", "series", "ThermodynamicTemperature"),
       Rd("BmsTemperature", "bms_temperature", "option", "ThermodynamicTemperature"),
       Rd("EnvironmentTemperatureCount", "env_temp_count", "count", "Integer"),
       Rd("EnvironmentTemperature", "environment_temperatures", "series",
          "ThermodynamicTemperature"),
       Rd("HeaterTemperatureCount", "heater_temp_count", "count", "Integer"),
       Rd("HeaterTemperature", "heater_temperatures", "series", "ThermodynamicTemperature"),
       Rd("ChargeVoltageLimit", "charge_voltage_limit", "option", "ElectricPotential"),
       Rd("DischargeVoltageLimit", "discharge_voltage_limit", "option", "ElectricPotential"),
       Rd("ChargeCurrentLimit", "charge_current_limit", "option", "ElectricCurrent"),
       Rd("DischargeCurrentLimit", "discharge_current_limit", "option", "ElectricCurrent"),
       Rd("Status1", "status1", "option", "Status1"),
       Rd("Status2", "status2", "option", "Status2"),
       Rd("Status3", "status3", "option", "Status3"),
       Rd("OtherAlarmInfo", "other_alarm_info", "option", "OtherAlarmInfo"),
       Rd("CellVoltageAlarmInfo", "cell_voltage_alarms", "option", "CellVoltageAlarms"),
       Rd("CellTemperatureAlarmInfo", "cell_temperature_alarms", "option",
          "CellTemperatureAlarms"),
       Rd("ChargeDischargeStatus", "charge_discharge_status", "option",
          "ChargeDischargeStatus") >>

\* the values an Integer read that feeds a count may return
CountValues(reg) ==
    CASE reg = "CellCount" -> CellCountValues
      [] reg = "CellTemperatureCount" -> TempCountValues
      [] reg \in {"EnvironmentTemperatureCount", "HeaterTemperatureCount"} -> SensorCountValues
      [] OTHER -> {0}

\* the loops without their caps
SeriesLimit_uncapped(reg, info, local) ==
    CASE reg = "CellVoltage" -> info.cell_count
      [] reg = "CellTemperature" -> local.cell_temp_count
      [] reg = "EnvironmentTemperature" -> local.env_temp_count
      [] reg = "HeaterTemperature" -> local.heater_temp_count
      [] OTHER -> 1

\* for i in 1..=count.min(16) (cells, cell temperatures), 1..=count.min(2)
\* (environment, heater)
SeriesLimit(reg, info, local) ==
    CASE reg = "CellVoltage" -> Min(info.cell_count, 16)
      [] reg = "CellTemperature" -> Min(local.cell_temp_count, 16)
      [] reg = "EnvironmentTemperature" -> Min(local.env_temp_count, 2)
      [] reg = "HeaterTemperature" -> Min(local.heater_temp_count, 2)
      [] OTHER -> 1

\* the next read: a series whose loop has no iteration is passed over
RECURSIVE SkipEmpty(_, _, _)
SkipEmpty(pc, info, local) ==
    IF pc > Len(ReadOrder) THEN pc
    ELSE IF /\ ReadOrder[pc].policy = "series"
            /\ SeriesLimit(ReadOrder[pc].reg, info, local) = 0
         THEN SkipEmpty(pc + 1, info, local)
         ELSE pc

\* a query that gives up on any failed read.
aborts_on_any(policy, got) == ~got

\* the two reads followed by `?`: serial and cell_count
aborts(policy, got) == ~got /\ policy = "abort"

\* a query that leaves every Option field as it was.
stored_no_option(st, info, v) ==
    CASE st.policy = "abort" /\ st.field = "cell_count" -> [info EXCEPT !.cell_count = v]
      [] st.policy = "abort" /\ st.field = "serial" -> [info EXCEPT !.serial = "read"]
      [] st.policy = "default" -> [info EXCEPT ![st.field] = "read"]
      [] st.policy = "series" -> [info EXCEPT ![st.field] = @ + 1]
      [] OTHER -> info

\* what a read that returned Some stores
stored(st, info, v) ==
    CASE st.policy = "abort" /\ st.field = "cell_count" -> [info EXCEPT !.cell_count = v]
      [] st.policy = "abort" /\ st.field = "serial" -> [info EXCEPT !.serial = "read"]
      [] st.policy = "default" -> [info EXCEPT ![st.field] = "read"]
      [] st.policy = "option" -> [info EXCEPT ![st.field] = "Some"]
      [] st.policy = "series" -> [info EXCEPT ![st.field] = @ + 1]
      [] OTHER -> info

InitQuery ==
    /\ InitBufferPart /\ requested = 1
    /\ InitCollectorPart /\ InitBt2Part /\ InitQueryPart /\ InitExtPart

\* one read_* call: it returned Some(v) (ok), or None because
\* read_holding_registers failed or the value was not of the variant asked for
QueryRead(ok, v) ==
    LET st == ReadOrder[qpc]
        got == ok
        info1 == IF got THEN stored(st, qInfo, v) ELSE qInfo
        local1 == IF got /\ st.policy = "count" THEN [qLocal EXCEPT ![st.field] = v]
                  ELSE IF got /\ st.field = "serial"
                       THEN [qLocal EXCEPT !.serial_at = qClock + 1]
                       ELSE qLocal
        inLoop == st.policy = "series" /\ qi < SeriesLimit(st.reg, qInfo, qLocal)
        pc1 == IF inLoop THEN qpc ELSE SkipEmpty(qpc + 1, info1, local1)
    IN /\ qClock' = qClock + 1
       /\ qFailed' = IF got THEN qFailed ELSE qFailed \cup {st.field}
       /\ qMissed' = IF ~got /\ st.policy = "series"
                     THEN [qMissed EXCEPT ![st.field] = @ + 1]
                     ELSE qMissed
       /\ qFaults' = IF ok THEN qFaults ELSE qFaults + 1
       /\ qLocal' = local1
       /\ IF aborts(st.policy, got)
          THEN /\ qOut' = "None"
               /\ qInfo' = info1
               /\ UNCHANGED <<qpc, qi>>
          ELSE /\ qpc' = pc1
               /\ qi' = IF inLoop THEN qi + 1 ELSE 1
               /\ qOut' = IF pc1 > Len(ReadOrder) THEN "Some" ELSE "running"
               /\ qInfo' = IF pc1 > Len(ReadOrder)
                           THEN [info1 EXCEPT !.timestamp = qClock + 1]
                           ELSE info1

QueryReadOk ==
    /\ qOut = "running"
    /\ \E v \in CountValues(ReadOrder[qpc].reg) : QueryRead(TRUE, v)
    /\ UNCHANGED <<bufVars, histVars, collVars, collHist, bt2Vars, extVars>>

QueryReadErr ==
    /\ qOut = "running"
    /\ qFaults < MaxFaults
    /\ QueryRead(FALSE, 0)
    /\ UNCHANGED <<bufVars, histVars, collVars, collHist, bt2Vars, extVars>>

NextQuery ==
    \/ QueryReadOk
    \/ QueryReadErr

SpecQuery == InitQuery /\ [][NextQuery]_vars

----------------------------------------------------------------------------
\* AnyTransport::discover_batteries (src/any_transport.rs): one call, its
\* probes one after the other.

InitDiscover ==
    /\ InitBufferPart /\ requested = 1
    /\ InitCollectorPart /\ InitBt2Part /\ InitQueryPart
    /\ \E lo \in 0..MaxScan, hi \in 0..MaxScan : DiscoverStart(lo, hi)
    /\ InitPduPart /\ InitBt2LifePart /\ InitReadPart /\ InitDevicePart /\ InitAlarmPart /\ InitRegisterPart /\ InitSerialPart /\ InitWritePart /\ InitSizePart /\ InitSummaryPart /\ InitOverflowPart /\ InitPollPart /\ InitServerPart

\* a scan that passes over a missing address.
stops_never(ok) == FALSE

\* if query_battery(..).is_some() { found.push(addr) } else { break }
stops(ok) == ~ok

\* one iteration of for addr in range: the probe query_battery(self, addr)
\* returned Some (ok) or None
DiscoverProbe(ok) ==
    /\ dpc = "scan"
    /\ dNext <= dHi
    /\ probed' = Append(probed, [addr |-> dNext, ok |-> ok])
    /\ found' = IF ok THEN Append(found, dNext) ELSE found
    /\ dpc' = IF stops(ok) THEN "done" ELSE "scan"
    /\ dNext' = dNext + 1
    /\ UNCHANGED <<dLo, dHi, coreVars, pduVars, bt2Life, readVars, devVars, alarmVars, regVars, serVars, wmVars, sizeVars, sumVars, ovVars, pollVars, srvVars>>

DiscoverFound == DiscoverProbe(TRUE)

DiscoverMissing == DiscoverProbe(FALSE)

\* the range is exhausted: found is returned
DiscoverEnd ==
    /\ dpc = "scan"
    /\ dNext > dHi
    /\ dpc' = "done"
    /\ UNCHANGED <<dLo, dHi, dNext, found, probed, coreVars, pduVars, bt2Life, readVars, devVars, alarmVars, regVars, serVars, wmVars, sizeVars, sumVars, ovVars, pollVars, srvVars>>

NextDiscover ==
    \/ DiscoverFound
    \/ DiscoverMissing
    \/ DiscoverEnd

SpecDiscover == InitDiscover /\ [][NextDiscover]_vars

----------------------------------------------------------------------------
\* Pdu::serialize and Pdu::deserialize (src/pdu.rs), bytes as 0..255.

\* bitwise exclusive or of two naturals
RECURSIVE Xor(_, _)
Xor(a, b) ==
    IF a = 0 THEN b
    ELSE IF b = 0 THEN a
    ELSE (((a % 2) + (b % 2)) % 2) + 2 * Xor(a \div 2, b \div 2)

\* CRC_16_MODBUS: init 0xFFFF, reflected polynomial 0xA001, no final xor
CrcInit == 65535
CrcPoly == 40961

RECURSIVE crc_bits(_, _)
crc_bits(reg, n) ==
    IF n = 0 THEN reg
    ELSE crc_bits(IF reg % 2 = 1 THEN Xor(reg \div 2, CrcPoly) ELSE reg \div 2, n - 1)

\* the table of the byte-wise algorithm: the register after eight shifts
CrcTable == [b \in 0..255 |-> crc_bits(b, 8)]

\* one byte of input
crc_byte(acc, byte) == Xor(acc \div 256, CrcTable[Xor(acc % 256, byte)])

\* the register after the first i bytes of msg
crc_update(msg) ==
    LET digest[i \in 0..Len(msg)] ==
            IF i = 0 THEN CrcInit ELSE crc_byte(digest[i - 1], msg[i])
    IN digest

\* a checksum that does not cover the address byte.
checksum_skip_address(msg) == crc_update(Tail(msg))[Len(msg) - 1]

\* MODBUS_CRC.checksum(data)
checksum(msg) == crc_update(msg)[Len(msg)]

\* u16::to_le_bytes / u16::from_le_bytes
to_le_bytes(w) == <<w % 256, w \div 256>>
from_le_bytes(b) == b[1] + 256 * b[2]

\* FunctionCode and FunctionCode::from_u8
FunctionCodes == {3, 6, 16, 120, 121}
\* ModbusExceptionCode::from_u8
ExceptionCodes == {1, 2, 3, 4, 5, 6, 8, 10, 11}

\* address, function code and payload followed by the CRC of them
framed(body) == body \o to_le_bytes(checksum(body))

\* serialize with the CRC high byte first.
serialize_be(f) ==
    LET frame == <<f.address, f.function_code>> \o f.payload
        crc == checksum(frame)
    IN frame \o <<crc \div 256, crc % 256>>

\* Pdu::serialize
serialize(f) == framed(<<f.address, f.function_code>> \o f.payload)

PduErr(kind, code) == [NoPduRes EXCEPT !.kind = kind, !.code = code]

\* what deserialize does with a frame whose CRC agrees
decode(fields) ==
    IF fields[2] >= 128
    THEN IF Len(fields) >= 3 /\ fields[3] \in ExceptionCodes
         THEN PduErr("ModbusException", fields[3])
         ELSE PduErr("InvalidData", 0)
    ELSE IF fields[2] \notin FunctionCodes
         THEN PduErr("InvalidData", 0)
         ELSE [kind |-> "Ok", address |-> fields[1], function_code |-> fields[2],
               payload |-> SubSeq(fields, 3, Len(fields)), code |-> 0]

\* deserialize looking at the function code before the CRC.
deserialize_fc_first(frame) ==
    IF Len(frame) < 4 THEN PduErr("InvalidData", 0)
    ELSE LET data == SubSeq(frame, 1, Len(frame) - 2)
             crc_bytes == SubSeq(frame, Len(frame) - 1, Len(frame))
         IN IF data[2] >= 128 THEN decode(data)
            ELSE IF checksum(data) # from_le_bytes(crc_bytes)
                 THEN PduErr("CrcMismatch", 0)
                 ELSE decode(data)

\* Pdu::deserialize
deserialize(frame) ==
    IF Len(frame) < 4 THEN PduErr("InvalidData", 0)
    ELSE LET data == SubSeq(frame, 1, Len(frame) - 2)
             crc_bytes == SubSeq(frame, Len(frame) - 1, Len(frame))
         IN IF checksum(data) # from_le_bytes(crc_bytes)
            THEN PduErr("CrcMismatch", 0)
            ELSE decode(data)

\* the frames F of the model
PduAddrs == {1, 247}
PayloadBytes == {0, 165}
Payloads == UNION {[1..n -> PayloadBytes] : n \in 0..MaxPayload}
Pdus == [address : PduAddrs, function_code : FunctionCodes, payload : Payloads]

\* function-code bytes and third bytes a device's reply may carry
ReplyCodes == {3, 7, 131, 134, 248}
ReplyThird == {0, 2, 7, 11}

InitPdu ==
    /\ InitBufferPart /\ requested = 1
    /\ InitCollectorPart /\ InitBt2Part /\ InitQueryPart
    /\ InitDiscoverPart /\ InitBt2LifePart /\ InitReadPart /\ InitDevicePart /\ InitAlarmPart /\ InitRegisterPart /\ InitSerialPart /\ InitWritePart /\ InitSizePart /\ InitSummaryPart /\ InitOverflowPart /\ InitPollPart /\ InitServerPart
    /\ \E f \in Pdus : PduStart(f)

\* let frame = pdu.serialize()
PduSerialize ==
    /\ wire = <<>>
    /\ wire' = serialize(pdu)
    /\ UNCHANGED <<pdu, rx, rxHow, pduRes, coreVars, discVars, bt2Life, readVars, devVars, alarmVars, regVars, serVars, wmVars, sizeVars, sumVars, ovVars, pollVars, srvVars>>

Received(frame, how) ==
    /\ rx' = frame
    /\ rxHow' = how
    /\ UNCHANGED <<pdu, wire, pduRes, coreVars, discVars, bt2Life, readVars, devVars, alarmVars, regVars, serVars, wmVars, sizeVars, sumVars, ovVars, pollVars, srvVars>>

\* the frame was serialized and deserialize was not handed anything yet
Sent == wire # <<>> /\ rxHow = "none"

\* deserialize is handed the serialized frame as it is
PduIntact == Sent /\ Received(wire, "intact")

\* ... with one byte outside the two CRC bytes changed
PduTampered ==
    /\ Sent
    /\ \E pos \in 1..(Len(wire) - 2), v \in 0..255 :
          /\ v # wire[pos]
          /\ Received([wire EXCEPT ![pos] = v], "tampered")

\* ... a reply with another function-code byte and third byte, CRC correct
PduForged ==
    /\ Sent
    /\ \E fc \in ReplyCodes, third \in ReplyThird, n \in 0..1 :
          Received(framed(<<pdu.address, fc>> \o FirstN(<<third>>, n) \o pdu.payload),
                   "forged")

\* ... only its first n bytes
PduCut ==
    /\ Sent
    /\ \E n \in 0..3 : Received(FirstN(wire, n), "cut")

\* Pdu::deserialize(&frame)
PduDeserialize ==
    /\ rxHow # "none"
    /\ pduRes = NoPduRes
    /\ pduRes' = deserialize(rx)
    /\ UNCHANGED <<pdu, wire, rx, rxHow, coreVars, discVars, bt2Life, readVars, devVars, alarmVars, regVars, serVars, wmVars, sizeVars, sumVars, ovVars, pollVars, srvVars>>

NextPdu ==
    \/ PduSerialize
    \/ PduIntact
    \/ PduTampered
    \/ PduForged
    \/ PduCut
    \/ PduDeserialize

SpecPdu == InitPdu /\ [][NextPdu]_vars

----------------------------------------------------------------------------
\* DeviceCommand (src/device.rs): the PDU of each device control command.

DeviceCommands == {"RestoreFactoryDefault", "ClearHistory", "Shutdown", "Lock",
                   "Unlock", "TestBegin", "TestEnd"}

\* device_address: u8
DeviceAddrs == 0..255

\* register addresses for device control
SHUTDOWN_REGISTER == 5222
LOCK_CONTROL_REGISTER == 5224
TEST_READY_REGISTER == 5225

\* control values (0x5A5A = 23130, 0xA5A5 = 42405)
SHUTDOWN_VALUE == 1
LOCK_VALUE == 23130
UNLOCK_VALUE == 42405
TEST_BEGIN_VALUE == 23130
TEST_END_VALUE == 42405

\* FunctionCode as u8
WriteSingleRegister == 6
RestoreFactoryDefault == 120
ClearHistory == 121

\* u16::to_be_bytes
to_be_bytes(w) == <<w \div 256, w % 256>>

\* create_write_pdu with the value first and the register after it
create_write_pdu_swapped(device_address, register_address, value) ==
    [address |-> device_address,
     function_code |-> WriteSingleRegister,
     payload |-> to_be_bytes(value) \o to_be_bytes(register_address)]

\* payload = register_address.to_be_bytes() ++ value.to_be_bytes()
create_write_pdu(device_address, register_address, value) ==
    [address |-> device_address,
     function_code |-> WriteSingleRegister,
     payload |-> to_be_bytes(register_address) \o to_be_bytes(value)]

create_pdu(cmd, device_address) ==
    CASE cmd = "RestoreFactoryDefault" ->
           [address |-> device_address,
            function_code |-> RestoreFactoryDefault,
            payload |-> <<0, 0, 0, 1>>]
      [] cmd = "ClearHistory" ->
           [address |-> device_address,
            function_code |-> ClearHistory,
            payload |-> <<0, 0, 0, 1>>]
      [] cmd = "Shutdown" ->
           create_write_pdu(device_address, SHUTDOWN_REGISTER, SHUTDOWN_VALUE)
      [] cmd = "Lock" ->
           create_write_pdu(device_address, LOCK_CONTROL_REGISTER, LOCK_VALUE)
      [] cmd = "Unlock" ->
           create_write_pdu(device_address, LOCK_CONTROL_REGISTER, UNLOCK_VALUE)
      [] cmd = "TestBegin" ->
           create_write_pdu(device_address, TEST_READY_REGISTER, TEST_BEGIN_VALUE)
      [] cmd = "TestEnd" ->
           create_write_pdu(device_address, TEST_READY_REGISTER, TEST_END_VALUE)

\* matches!(self, RestoreFactoryDefault | ClearHistory)
requires_unlock(cmd) == cmd \in {"RestoreFactoryDefault", "ClearHistory"}

InitDevice ==
    /\ InitBufferPart /\ requested = 1
    /\ InitCollectorPart /\ InitBt2Part /\ InitQueryPart
    /\ InitDiscoverPart /\ InitPduPart /\ InitBt2LifePart /\ InitReadPart /\ InitAlarmPart /\ InitRegisterPart /\ InitSerialPart /\ InitWritePart /\ InitSizePart /\ InitSummaryPart /\ InitOverflowPart /\ InitPollPart /\ InitServerPart
    /\ \E cmd \in DeviceCommands, addr \in DeviceAddrs : DeviceStart(cmd, addr)

\* command.create_pdu(devAddr): the one request the command is turned into.
\* Nothing in create_pdu consults requires_unlock, and no other function of
\* the crate builds or sends a request for a DeviceCommand.
DeviceCreatePdu ==
    /\ requests = <<>>
    /\ devPdu' = create_pdu(command, devAddr)
    /\ requests' = Append(requests, create_pdu(command, devAddr))
    /\ UNCHANGED <<command, devAddr, coreVars, discVars, pduVars, bt2Life, readVars, alarmVars, regVars, serVars, wmVars, sizeVars, sumVars, ovVars, pollVars, srvVars>>

NextDevice == DeviceCreatePdu

SpecDevice == InitDevice /\ [][NextDevice]_vars

----------------------------------------------------------------------------
\* The bit-mapped registers: Register::parse_value for the status and alarm
\* words (src/registers.rs), the types of src/alarm.rs, and the raw status
\* fields batch_to_influx writes (src/collector/metrics.rs).
\* A u16 or u32 word is the set of the positions of its set bits (bit 0 the
\* least significant), and a flags type is the set of the positions it names.

\* (value >> i) & 1 == 1
Bit(value, i) == i \in value

Status1Flags == 0..15
Status2Flags == {15, 14, 13, 11, 8} \cup (0..7)
Status3Flags == 0..15
OtherAlarmInfoFlags == {31, 30, 29, 28, 27, 26, 21, 19}
ChargeDischargeStatusFlags == {7, 6, 5, 4, 3}

\* bitflags' from_bits_truncate: the bits no flag names are dropped
from_bits_truncate(flags, word) == {i \in flags : Bit(word, i)}

\* from_bits with the second loop first: an under bit overrides an over bit
alarms_from_bits_under_last(value, under, over) ==
    LET alarms0 == [i \in 0..15 |-> "Normal"]
        alarms1 == [i \in 0..15 |-> IF Bit(value, i + 16) THEN over ELSE alarms0[i]]
    IN [i \in 0..15 |-> IF Bit(value, i) THEN under ELSE alarms1[i]]

\* CellVoltageAlarms::from_bits and CellTemperatureAlarms::from_bits: all
\* Normal, then the loop over bit i, then the loop over bit i + 16
alarms_from_bits(value, under, over) ==
    LET alarms0 == [i \in 0..15 |-> "Normal"]
        alarms1 == [i \in 0..15 |-> IF Bit(value, i) THEN under ELSE alarms0[i]]
    IN [i \in 0..15 |-> IF Bit(value, i + 16) THEN over ELSE alarms1[i]]

\* the bit-mapped registers, and the ones read with read_u32 (quantity 2)
BitRegisters == {"Status1", "Status2", "Status3", "OtherAlarmInfo",
                 "ChargeDischargeStatus", "CellVoltageAlarmInfo",
                 "CellTemperatureAlarmInfo"}
WideRegisters == {"OtherAlarmInfo", "CellVoltageAlarmInfo", "CellTemperatureAlarmInfo"}

word_bits(reg) == IF reg \in WideRegisters THEN 32 ELSE 16

Flags(kind, bits) == [kind |-> kind, bits |-> bits, alarms |-> <<>>]
Alarms(kind, alarms) == [kind |-> kind, bits |-> {}, alarms |-> alarms]

\* Register::parse_value on the word BigEndian::read_u16 / read_u32 gives
parse_bits(reg, word) ==
    CASE reg = "Status1" -> Flags("Status1", from_bits_truncate(Status1Flags, word))
      [] reg = "Status2" -> Flags("Status2", from_bits_truncate(Status2Flags, word))
      [] reg = "Status3" -> Flags("Status3", from_bits_truncate(Status3Flags, word))
      [] reg = "OtherAlarmInfo" ->
           Flags("OtherAlarmInfo", from_bits_truncate(OtherAlarmInfoFlags, word))
      [] reg = "ChargeDischargeStatus" ->
           Flags("ChargeDischargeStatus",
                 from_bits_truncate(ChargeDischargeStatusFlags, word))
      [] reg = "CellVoltageAlarmInfo" ->
           Alarms("CellVoltageAlarms",
                  alarms_from_bits(word, "UnderVoltage", "OverVoltage"))
      [] reg = "CellTemperatureAlarmInfo" ->
           Alarms("CellTemperatureAlarms",
                  alarms_from_bits(word, "UnderTemperature", "OverTemperature"))

\* batch_to_influx: the raw fields, s.bits() as f64
raw_field(value) ==
    CASE value.kind = "Status1" ->
           [written |-> TRUE, name |-> "renogy_status1", value |-> value.bits]
      [] value.kind = "Status2" ->
           [written |-> TRUE, name |-> "renogy_status2", value |-> value.bits]
      [] value.kind = "Status3" ->
           [written |-> TRUE, name |-> "renogy_status3", value |-> value.bits]
      [] value.kind = "OtherAlarmInfo" ->
           [written |-> TRUE, name |-> "renogy_other_alarm_info", value |-> value.bits]
      [] OTHER -> NoRaw

\* the words with at most k bits set
RECURSIVE WordsUpTo(_, _)
WordsUpTo(k, width) ==
    IF k = 0 THEN {{}}
    ELSE LET prev == WordsUpTo(k - 1, width)
         IN prev \cup {w \cup {i} : w \in prev, i \in 0..(width - 1)}

AlarmWords(reg) == WordsUpTo(MaxSetBits, word_bits(reg))

InitAlarm ==
    /\ InitBufferPart /\ requested = 1
    /\ InitCollectorPart /\ InitBt2Part /\ InitQueryPart
    /\ InitDiscoverPart /\ InitPduPart /\ InitBt2LifePart /\ InitReadPart /\ InitDevicePart /\ InitRegisterPart /\ InitSerialPart /\ InitWritePart /\ InitSizePart /\ InitSummaryPart /\ InitOverflowPart /\ InitPollPart /\ InitServerPart
    /\ \E reg \in BitRegisters : \E word \in AlarmWords(reg) : AlarmStart(reg, word)

\* register.parse_value(data)
AlarmParse ==
    /\ apc = "read"
    /\ aValue' = parse_bits(aReg, aWord)
    /\ apc' = "parsed"
    /\ UNCHANGED <<aReg, aWord, aRaw, coreVars, discVars, pduVars, bt2Life, readVars, devVars, regVars, serVars, wmVars, sizeVars, sumVars, ovVars, pollVars, srvVars>>

\* batch_to_influx on the snapshot holding the value
AlarmExport ==
    /\ apc = "parsed"
    /\ aRaw' = raw_field(aValue)
    /\ apc' = "exported"
    /\ UNCHANGED <<aReg, aWord, aValue, coreVars, discVars, pduVars, bt2Life, readVars, devVars, regVars, serVars, wmVars, sizeVars, sumVars, ovVars, pollVars, srvVars>>

NextAlarm ==
    \/ AlarmParse
    \/ AlarmExport

SpecAlarm == InitAlarm /\ [][NextAlarm]_vars

----------------------------------------------------------------------------
\* The register catalog (src/registers.rs): address, quantity, is_writable,
\* parse_value and serialize_value. A dimensioned value is kept in
\* thousandths of its unit; the f32 products are taken as exact.

InBandLimits == {"ChargeVoltageLimit", "DischargeVoltageLimit",
                 "ChargeCurrentLimit", "DischargeCurrentLimit"}
ConfigVoltageLimits == {"CellOverVoltageLimit", "CellHighVoltageLimit",
                        "CellLowVoltageLimit", "CellUnderVoltageLimit",
                        "ModuleOverVoltageLimit", "ModuleHighVoltageLimit",
                        "ModuleLowVoltageLimit", "ModuleUnderVoltageLimit"}
ConfigTemperatureLimits == {"ChargeOverTemperatureLimit", "ChargeHighTemperatureLimit",
                            "ChargeLowTemperatureLimit", "ChargeUnderTemperatureLimit",
                            "DischargeOverTemperatureLimit", "DischargeHighTemperatureLimit",
                            "DischargeLowTemperatureLimit", "DischargeUnderTemperatureLimit"}
ConfigCurrentLimits == {"ChargeOver2CurrentLimit", "ChargeOver1CurrentLimit",
                        "ChargeHighCurrentLimit", "DischargeOver2CurrentLimit",
                        "DischargeOver1CurrentLimit", "DischargeHighCurrentLimit"}
ControlRegisters == {"ShutdownCommand", "DeviceId", "LockControl", "TestReady",
                     "ChargePowerSetting", "DischargePowerSetting"}
AcpRegisters == {"AcpBroadcast", "AcpConfigure", "AcpShake"}
StringRegisters == {"SnNumber", "ManufactureVersion", "MainlineVersion",
                    "CommunicationProtocolVersion", "BatteryName", "SoftwareVersion",
                    "ManufacturerName"}
CountRegisters == {"CellCount", "CellTemperatureCount", "EnvironmentTemperatureCount",
                   "HeaterTemperatureCount"}
SensorTemperatures == {"CellTemperature", "EnvironmentTemperature", "HeaterTemperature"}

\* Register::address: the base of every variant
AddressOf ==
    [CellCount |-> 5000, CellVoltage |-> 5000, CellTemperatureCount |-> 5017,
     CellTemperature |-> 5017, BmsTemperature |-> 5035,
     EnvironmentTemperatureCount |-> 5036, EnvironmentTemperature |-> 5036,
     HeaterTemperatureCount |-> 5039, HeaterTemperature |-> 5039,
     Current |-> 5042, ModuleVoltage |-> 5043, RemainingCapacity |-> 5044,
     TotalCapacity |-> 5046, CycleNumber |-> 5048, ChargeVoltageLimit |-> 5049,
     DischargeVoltageLimit |-> 5050, ChargeCurrentLimit |-> 5051,
     DischargeCurrentLimit |-> 5052, CellVoltageAlarmInfo |-> 5100,
     CellTemperatureAlarmInfo |-> 5102, OtherAlarmInfo |-> 5104, Status1 |-> 5106,
     Status2 |-> 5107, Status3 |-> 5108, ChargeDischargeStatus |-> 5109,
     SnNumber |-> 5110, ManufactureVersion |-> 5118, MainlineVersion |-> 5119,
     CommunicationProtocolVersion |-> 5121, BatteryName |-> 5122,
     SoftwareVersion |-> 5130, ManufacturerName |-> 5132,
     CellOverVoltageLimit |-> 5200, CellHighVoltageLimit |-> 5201,
     CellLowVoltageLimit |-> 5202, CellUnderVoltageLimit |-> 5203,
     ChargeOverTemperatureLimit |-> 5204, ChargeHighTemperatureLimit |-> 5205,
     ChargeLowTemperatureLimit |-> 5206, ChargeUnderTemperatureLimit |-> 5207,
     ChargeOver2CurrentLimit |-> 5208, ChargeOver1CurrentLimit |-> 5209,
     ChargeHighCurrentLimit |-> 5210, ModuleOverVoltageLimit |-> 5211,
     ModuleHighVoltageLimit |-> 5212, ModuleLowVoltageLimit |-> 5213,
     ModuleUnderVoltageLimit |-> 5214, DischargeOverTemperatureLimit |-> 5215,
     DischargeHighTemperatureLimit |-> 5216, DischargeLowTemperatureLimit |-> 5217,
     DischargeUnderTemperatureLimit |-> 5218, DischargeOver2CurrentLimit |-> 5219,
     DischargeOver1CurrentLimit |-> 5220, DischargeHighCurrentLimit |-> 5221,
     ShutdownCommand |-> 5222, DeviceId |-> 5223, LockControl |-> 5224,
     TestReady |-> 5225, UniqueIdentificationCode |-> 5226,
     ChargePowerSetting |-> 5228, DischargePowerSetting |-> 5229,
     AcpBroadcast |-> 61440, AcpConfigure |-> 61441, AcpShake |-> 61442]

\* the variants that carry an index n: CellVoltage(n) => 5000 + n, ...
IndexedRegisters == {"CellVoltage"} \cup SensorTemperatures

address(r) == AddressOf[r.name] + (IF r.name \in IndexedRegisters THEN r.n ELSE 0)

quantity_of(r) ==
    CASE r.name \in {"RemainingCapacity", "TotalCapacity", "CellVoltageAlarmInfo",
                     "CellTemperatureAlarmInfo", "OtherAlarmInfo", "MainlineVersion"} -> 2
      [] r.name = "SnNumber" -> 8
      [] r.name = "BatteryName" -> 8
      [] r.name = "SoftwareVersion" -> 2
      [] r.name = "ManufacturerName" -> 10
      [] r.name = "UniqueIdentificationCode" -> 2
      [] OTHER -> 1

\* is_writable without the four in-band limits
is_writable_config_only(r) ==
    r.name \in ConfigVoltageLimits \cup ConfigTemperatureLimits \cup ConfigCurrentLimits
               \cup ControlRegisters \cup {"UniqueIdentificationCode"} \cup AcpRegisters

is_writable(r) ==
    r.name \in InBandLimits \cup ConfigVoltageLimits \cup ConfigTemperatureLimits
               \cup ConfigCurrentLimits \cup ControlRegisters
               \cup {"UniqueIdentificationCode"} \cup AcpRegisters

\* BigEndian::read_u16 / read_i16 / read_u32 on the first bytes of the slice
read_u16(bytes) == bytes[1] * 256 + bytes[2]
read_i16(bytes) == IF read_u16(bytes) >= 32768 THEN read_u16(bytes) - 65536
                   ELSE read_u16(bytes)
read_u32(bytes) == ((bytes[1] * 256 + bytes[2]) * 256 + bytes[3]) * 256 + bytes[4]

\* BigEndian::write_u16 / write_i16 / write_u32 into the zeroed buffer
write_u16(buf, w) == [buf EXCEPT ![1] = w \div 256, ![2] = w % 256]
write_i16(buf, w) == write_u16(buf, IF w < 0 THEN w + 65536 ELSE w)
write_u32(buf, w) ==
    [buf EXCEPT ![1] = w \div 16777216, ![2] = (w \div 65536) % 256,
                ![3] = (w \div 256) % 256, ![4] = w % 256]

\* Register::parse_value on a numeric register: the variant, and the word
\* times the scale (0.1 -> 100, 0.01 -> 10, 0.001 -> 1 thousandths)
parse_value(r, bytes) ==
    CASE r.name \in CountRegisters \cup {"CycleNumber"} \cup ControlRegisters
                    \cup AcpRegisters ->
           Val("Integer", read_u16(bytes))
      [] r.name = "UniqueIdentificationCode" -> Val("Integer", read_u32(bytes))
      [] r.name \in {"CellVoltage", "ModuleVoltage", "ChargeVoltageLimit",
                     "DischargeVoltageLimit"} \cup ConfigVoltageLimits ->
           Val("ElectricPotential", read_u16(bytes) * 100)
      [] r.name \in SensorTemperatures \cup {"BmsTemperature"} ->
           Val("ThermodynamicTemperature", read_u16(bytes) * 100)
      [] r.name \in ConfigTemperatureLimits ->
           Val("ThermodynamicTemperature", read_i16(bytes) * 100)
      [] r.name \in {"Current", "DischargeCurrentLimit"} ->
           Val("ElectricCurrent", read_i16(bytes) * 10)
      [] r.name \in {"ChargeCurrentLimit"} \cup ConfigCurrentLimits ->
           Val("ElectricCurrent", read_u16(bytes) * 10)
      [] r.name \in {"RemainingCapacity", "TotalCapacity"} ->
           Val("ElectricCurrent", read_u32(bytes))
      [] r.name = "CellVoltageAlarmInfo" -> Val("CellVoltageAlarms", 0)
      [] r.name = "CellTemperatureAlarmInfo" -> Val("CellTemperatureAlarms", 0)
      [] r.name \in StringRegisters -> Val("String", 0)
      [] OTHER -> Val(r.name, 0)

\* division rounding toward zero, and `as u16` / `as i16` / `as u32` on an
\* f32: the fraction is dropped and the result saturates
trunc_div(a, b) == IF a >= 0 THEN a \div b ELSE 0 - ((0 - a) \div b)
saturate(x, lo, hi) == IF x < lo THEN lo ELSE IF x > hi THEN hi ELSE x
as_u16(thousandths, per) == saturate(trunc_div(thousandths, per), 0, 65535)
as_i16(thousandths, per) == saturate(trunc_div(thousandths, per), 0 - 32768, 32767)
as_u32(thousandths, per) == saturate(trunc_div(thousandths, per), 0, 2147483647)

Serialized(bytes) == [ok |-> TRUE, err |-> "none", data |-> bytes]

\* Register::serialize_value: the match on (self, value)
serialize_value(r, v) ==
    LET buf == [i \in 1..(quantity_of(r) * 2) |-> 0]
    IN CASE r.name \in {"ChargeVoltageLimit", "DischargeVoltageLimit"}
             /\ v.kind = "ElectricPotential" ->
               Serialized(write_u16(buf, as_u16(v.n, 100)))
         [] r.name \in {"ChargeCurrentLimit", "DischargeCurrentLimit"}
             /\ v.kind = "ElectricCurrent" ->
               Serialized(write_u16(buf, as_u16(v.n, 10)))
         [] r.name = "CycleNumber" /\ v.kind = "Integer" ->
               Serialized(write_u16(buf, v.n % 65536))
         [] r.name \in {"RemainingCapacity", "TotalCapacity"}
             /\ v.kind = "ElectricCurrent" ->
               Serialized(write_u32(buf, as_u32(v.n, 1)))
         [] r.name \in ConfigVoltageLimits /\ v.kind = "ElectricPotential" ->
               Serialized(write_u16(buf, as_u16(v.n, 100)))
         [] r.name \in ConfigTemperatureLimits /\ v.kind = "ThermodynamicTemperature" ->
               Serialized(write_i16(buf, as_i16(v.n, 100)))
         [] r.name \in ConfigCurrentLimits /\ v.kind = "ElectricCurrent" ->
               Serialized(write_u16(buf, as_u16(v.n, 10)))
         [] r.name \in ControlRegisters \cup AcpRegisters /\ v.kind = "Integer" ->
               Serialized(write_u16(buf, v.n % 65536))
         [] r.name = "UniqueIdentificationCode" /\ v.kind = "Integer" ->
               Serialized(write_u32(buf, v.n))
         [] OTHER -> [ok |-> FALSE, err |-> "UnsupportedOperation", data |-> <<>>]

\* every variant of Register, the indexed ones with their first and last index
Registers ==
    {Reg(name, 0) : name \in (DOMAIN AddressOf) \ IndexedRegisters}
    \cup {Reg(name, n) : name \in {"CellVoltage", "CellTemperature"}, n \in {1, 16}}
    \cup {Reg(name, n) : name \in {"EnvironmentTemperature", "HeaterTemperature"},
                         n \in {1, 2}}

\* magnitudes in thousandths: negative, fractions of an LSB, in range, the ends
\* of the i16 and u16 ranges at 0.01 and 0.1 per LSB, and beyond
Magnitudes == {0 - 20000, 0 - 1000, 0 - 50, 0, 15, 100, 3650, 327670, 400000,
               6553500, 7000000}
Integers16 == {0, 1, 254, 23130, 65535}

Values ==
    {Val(kind, n) : kind \in {"ElectricPotential", "ElectricCurrent",
                              "ThermodynamicTemperature"}, n \in Magnitudes}
    \cup {Val("Integer", n) : n \in Integers16}
    \cup {Val("String", 0), Val("Status1", 0)}

InitRegister ==
    /\ InitBufferPart /\ requested = 1
    /\ InitCollectorPart /\ InitBt2Part /\ InitQueryPart
    /\ InitDiscoverPart /\ InitPduPart /\ InitBt2LifePart /\ InitReadPart /\ InitDevicePart /\ InitAlarmPart /\ InitSerialPart /\ InitWritePart /\ InitSizePart /\ InitSummaryPart /\ InitOverflowPart /\ InitPollPart /\ InitServerPart
    /\ \E r \in Registers, v \in Values : RegisterStart(r, v)

\* the pure lookups of the catalog
RegisterLookup ==
    /\ spc = "start"
    /\ sInfo' = [address |-> address(sReg), quantity |-> quantity_of(sReg),
                 writable |-> is_writable(sReg)]
    /\ spc' = "looked"
    /\ UNCHANGED <<sReg, sValue, sRes, sBack, coreVars, discVars, pduVars, bt2Life, readVars, devVars, alarmVars, serVars, wmVars, sizeVars, sumVars, ovVars, pollVars, srvVars>>

\* register.serialize_value(&value)
RegisterSerialize ==
    /\ spc = "looked"
    /\ sRes' = serialize_value(sReg, sValue)
    /\ spc' = "serialized"
    /\ UNCHANGED <<sReg, sValue, sInfo, sBack, coreVars, discVars, pduVars, bt2Life, readVars, devVars, alarmVars, serVars, wmVars, sizeVars, sumVars, ovVars, pollVars, srvVars>>

\* register.parse_value(&data) on the bytes serialize_value returned
RegisterParse ==
    /\ spc = "serialized"
    /\ sRes.ok
    /\ sBack' = parse_value(sReg, sRes.data)
    /\ spc' = "parsed"
    /\ UNCHANGED <<sReg, sValue, sInfo, sRes, coreVars, discVars, pduVars, bt2Life, readVars, devVars, alarmVars, serVars, wmVars, sizeVars, sumVars, ovVars, pollVars, srvVars>>

NextRegister ==
    \/ RegisterLookup
    \/ RegisterSerialize
    \/ RegisterParse

SpecRegister == InitRegister /\ [][NextRegister]_vars


----------------------------------------------------------------------------
\* SerialTransport (src/serial.rs): set_slave and send_receive over a
\* tokio-modbus Context.

SerialAddrs == {1, 2, 247}

\* the requests given to send_receive: well-formed ones, ones whose payload
\* is too short, a write-multiple whose byte count is short of its payload,
\* and one whose quantity asks for more words than its byte count
SerialPayloads == {<<>>, <<20, 104, 0, 1>>, <<20, 104, 0, 1, 2, 0, 5>>,
                   <<20, 104, 0, 1, 9, 0, 5>>, <<0, 0, 0, 1>>,
                   <<20, 104, 0, 2, 2, 0, 5>>}
SerialPdus == [address : SerialAddrs, function_code : FunctionCodes,
               payload : SerialPayloads]

\* what the Context answers: the response, an io::Error of kind InvalidData,
\* an io::Error of another kind, or a response of another variant
DriverOutcomes == {"ok", "invalid", "io", "other"}

\* set_slave that leaves the Context as it is
set_slave_field_only(st, id) == [slave_id |-> id, ctx |-> st.ctx]

\* self.slave_id = slave_id; self.ctx.set_slave(Slave(slave_id))
set_slave(st, id) == [slave_id |-> id, ctx |-> id]

\* if pdu.address != self.slave_id { self.set_slave(pdu.address) }
retarget(st, f) == IF f.address # st.slave_id THEN set_slave(st, f.address) ELSE st

\* the payload is too short for the function code: Err(InvalidData) before
\* anything is handed to the Context
too_short(f) ==
    CASE f.function_code \in {3, 6} -> Len(f.payload) < 4
      [] f.function_code = 16 ->
           IF Len(f.payload) < 5 THEN TRUE ELSE Len(f.payload) < 5 + f.payload[5]
      [] OTHER -> FALSE

\* for i in 0..quantity: pdu.payload[offset], pdu.payload[offset + 1] with
\* offset = 5 + i * 2: an index is out of bounds and the indexing panics
reads_past_end(f) ==
    /\ f.function_code = 16
    /\ ~too_short(f)
    /\ \E i \in 0..(from_be_bytes(f.payload[3], f.payload[4]) - 1) :
         5 + i * 2 + 1 >= Len(f.payload)

\* io_to_renogy_error
io_to_renogy_error(outcome) == IF outcome = "invalid" THEN "InvalidData" ELSE "Io"

SerResult(kind, f, payload) ==
    [kind |-> kind, address |-> f.address, function_code |-> f.function_code,
     payload |-> payload]

\* the response send_receive builds from what the Context returned
serial_response(f, outcome) ==
    CASE outcome \in {"invalid", "io"} -> SerResult(io_to_renogy_error(outcome), f, <<>>)
      [] f.function_code = 3 ->
           LET n == from_be_bytes(f.payload[3], f.payload[4])
           IN SerResult("ok", f, <<(n * 2) % 256>> \o [i \in 1..(n * 2) |-> 0])
      [] f.function_code = 6 -> SerResult("ok", f, f.payload)
      [] f.function_code = 16 -> SerResult("ok", f, FirstN(f.payload, 4))
      [] OTHER ->
           IF outcome = "other" THEN SerResult("InvalidData", f, <<>>)
           ELSE SerResult("ok", f, f.payload)

InitSerial ==
    /\ InitBufferPart /\ requested = 1
    /\ InitCollectorPart /\ InitBt2Part /\ InitQueryPart
    /\ InitDiscoverPart /\ InitPduPart /\ InitBt2LifePart /\ InitReadPart /\ InitDevicePart /\ InitAlarmPart /\ InitRegisterPart /\ InitWritePart /\ InitSizePart /\ InitSummaryPart /\ InitOverflowPart /\ InitPollPart /\ InitServerPart
    /\ \E id \in SerialAddrs : SerialStart(id)

\* transport.set_slave(id)
SerialSetSlave ==
    /\ serRes.kind # "panic"
    /\ serOps < MaxSerialOps
    /\ \E id \in SerialAddrs :
          LET st == set_slave([slave_id |-> slave_id, ctx |-> ctxSlave], id)
          IN /\ slave_id' = st.slave_id
             /\ ctxSlave' = st.ctx
    /\ serOps' = serOps + 1
    /\ UNCHANGED <<handed, serRes, coreVars, discVars, pduVars, bt2Life, readVars, devVars, alarmVars, regVars, wmVars, sizeVars, sumVars, ovVars, pollVars, srvVars>>

\* send_receive(pdu) returns Err(InvalidData) for a payload too short: the
\* slave is re-targeted, nothing reaches the Context
SerialReject ==
    /\ serRes.kind # "panic"
    /\ serOps < MaxSerialOps
    /\ \E f \in SerialPdus :
          LET st == retarget([slave_id |-> slave_id, ctx |-> ctxSlave], f)
          IN /\ too_short(f)
             /\ slave_id' = st.slave_id
             /\ ctxSlave' = st.ctx
             /\ serRes' = SerResult("InvalidData", f, <<>>)
    /\ serOps' = serOps + 1
    /\ UNCHANGED <<handed, coreVars, discVars, pduVars, bt2Life, readVars, devVars, alarmVars, regVars, wmVars, sizeVars, sumVars, ovVars, pollVars, srvVars>>

\* send_receive(pdu) hands the request to the Context and maps its answer
SerialSendReceive ==
    /\ serRes.kind # "panic"
    /\ serOps < MaxSerialOps
    /\ \E f \in SerialPdus, outcome \in DriverOutcomes :
          LET st == retarget([slave_id |-> slave_id, ctx |-> ctxSlave], f)
          IN /\ ~too_short(f)
             /\ ~reads_past_end(f)
             /\ outcome = "other" => f.function_code \in {120, 121}
             /\ slave_id' = st.slave_id
             /\ ctxSlave' = st.ctx
             /\ handed' = [any |-> TRUE, slave |-> st.ctx, address |-> f.address,
                           function_code |-> f.function_code]
             /\ serRes' = serial_response(f, outcome)
    /\ serOps' = serOps + 1
    /\ UNCHANGED <<coreVars, discVars, pduVars, bt2Life, readVars, devVars, alarmVars, regVars, wmVars, sizeVars, sumVars, ovVars, pollVars, srvVars>>

\* send_receive(pdu) panics in the loop that collects the values of a
\* write-multiple request: the slave is re-targeted, nothing reaches the
\* Context, the caller gets no result
SerialPanic ==
    /\ serRes.kind # "panic"
    /\ serOps < MaxSerialOps
    /\ \E f \in SerialPdus :
          LET st == retarget([slave_id |-> slave_id, ctx |-> ctxSlave], f)
          IN /\ reads_past_end(f)
             /\ slave_id' = st.slave_id
             /\ ctxSlave' = st.ctx
             /\ serRes' = SerResult("panic", f, f.payload)
    /\ serOps' = serOps + 1
    /\ UNCHANGED <<handed, coreVars, discVars, pduVars, bt2Life, readVars, devVars, alarmVars, regVars, wmVars, sizeVars, sumVars, ovVars, pollVars, srvVars>>

NextSerial ==
    \/ SerialSetSlave
    \/ SerialReject
    \/ SerialSendReceive
    \/ SerialPanic

SpecSerial == InitSerial /\ [][NextSerial]_vars


----------------------------------------------------------------------------
\* Bt2Transport::write_multiple_registers (src/bt2.rs): the request it builds.

WriteAddrs == {0, 5200, 65535}

\* values.len() words, counting up from a first word and wrapping at 2^16
WordRun(first, n) == [i \in 1..n |-> (first + i - 1) % 65536]
WriteValues == {WordRun(first, n) : first \in {0, 65530}, n \in 0..MaxValues}

\* for value in values { payload.extend_from_slice(&value.to_be_bytes()) }
words_be(values) ==
    [j \in 1..(2 * Len(values)) |->
        IF j % 2 = 1 THEN values[(j + 1) \div 2] \div 256
        ELSE values[j \div 2] % 256]

\* quantity = values.len() as u16; byte_count = (values.len() * 2) as u8
write_multiple_payload(addr, values) ==
    to_be_bytes(addr) \o to_be_bytes(Len(values) % 65536)
        \o <<(Len(values) * 2) % 256>> \o words_be(values)

InitWrite ==
    /\ InitBufferPart /\ requested = 1
    /\ InitCollectorPart /\ InitBt2Part /\ InitQueryPart
    /\ InitDiscoverPart /\ InitPduPart /\ InitBt2LifePart /\ InitReadPart /\ InitDevicePart /\ InitAlarmPart /\ InitRegisterPart /\ InitSerialPart /\ InitSizePart /\ InitSummaryPart /\ InitOverflowPart /\ InitPollPart /\ InitServerPart
    /\ \E slave \in PduAddrs, addr \in WriteAddrs, values \in WriteValues :
          WriteStart(slave, addr, values)

\* write_multiple_registers up to Pdu::new; the Pdu then goes to send_pdu
WriteMultipleBuild ==
    /\ wmPdu = NoPdu
    /\ wmPdu' = [address |-> wmSlave, function_code |-> 16,
                  payload |-> write_multiple_payload(wmAddr, wmValues)]
    /\ UNCHANGED <<wmSlave, wmAddr, wmValues, coreVars, discVars, pduVars, bt2Life, readVars, devVars, alarmVars, regVars, serVars, sizeVars, sumVars, ovVars, pollVars, srvVars>>

NextWrite == WriteMultipleBuild

SpecWrite == InitWrite /\ [][NextWrite]_vars


----------------------------------------------------------------------------
\* The collector's main (src/bin/renogy-bms-collector.rs): the size of the
\* sample buffer.

\* Duration::from_secs(args.poll_interval.max(1))
poll_interval(poll) == Max(poll, 1)

\* Duration::from_secs(args.buffer_duration * 60)
buffer_duration(minutes) == minutes * 60

\* (buffer_duration.as_secs() / poll_interval.as_secs().max(1)) as usize
main_max_samples(poll, minutes) ==
    buffer_duration(minutes) \div Max(poll_interval(poll), 1)

InitSize ==
    /\ InitBufferPart /\ requested = 1
    /\ InitCollectorPart /\ InitBt2Part /\ InitQueryPart
    /\ InitDiscoverPart /\ InitPduPart /\ InitBt2LifePart /\ InitReadPart /\ InitDevicePart /\ InitAlarmPart /\ InitRegisterPart /\ InitSerialPart /\ InitWritePart /\ InitSummaryPart /\ InitOverflowPart /\ InitPollPart /\ InitServerPart
    /\ \E poll \in 0..MaxPoll, minutes \in 0..MaxMinutes : SizeStart(poll, minutes)

\* let max_samples = ..; let buffer = SampleBuffer::new(max_samples)
MainSizeBuffer ==
    /\ sizedTo < 0
    /\ sizedTo' = main_max_samples(argPoll, argBuffer)
    /\ bufCap' = new(main_max_samples(argPoll, argBuffer))
    /\ UNCHANGED <<argPoll, argBuffer, coreVars, discVars, pduVars, bt2Life, readVars, devVars, alarmVars, regVars, serVars, wmVars, sumVars, ovVars, pollVars, srvVars>>

NextSize == MainSizeBuffer

SpecSize == InitSize /\ [][NextSize]_vars

----------------------------------------------------------------------------
\* SystemSummary::new (src/system_summary.rs).  Currents and capacities are in
\* thousandths; a status word is the set of its set bits.  The averages
\* and the timestamp are not modelled.

\* Option<Status>: None, Some(bits)
NoStatus == [some |-> FALSE, bits |-> {}]
SomeStatus(bits) == [some |-> TRUE, bits |-> bits]

\* status |= s overwritten by status = s
or_status_assign(acc, status) == IF status.some THEN status.bits ELSE acc

\* if let Some(s) = info.status { status |= s }
or_status(acc, status) == IF status.some THEN acc \cup status.bits ELSE acc

\* the body of the for loop
summary_step(acc, info) ==
    [battery_count |-> acc.battery_count + 1,
     total_current |-> acc.total_current + info.current,
     total_remaining_ah |-> acc.total_remaining_ah + info.remaining_capacity,
     total_capacity_ah |-> acc.total_capacity_ah + info.total_capacity,
     status1 |-> or_status(acc.status1, info.status1),
     status2 |-> or_status(acc.status2, info.status2)]

RECURSIVE summary_fold(_, _)
summary_fold(acc, infos) ==
    IF infos = <<>> THEN acc
    ELSE summary_fold(summary_step(acc, Head(infos)), Tail(infos))

\* SystemSummary::new(batteries)
summary_new(infos) == summary_fold(EmptySummary, infos)

\* the snapshots a fleet can hold: a status is parsed with from_bits_truncate
BatteryInfos ==
    [current : {0 - 1500, 2000},
     remaining_capacity : {50000},
     total_capacity : {100000},
     status1 : {NoStatus, SomeStatus(from_bits_truncate(Status1Flags, {0})),
                SomeStatus(from_bits_truncate(Status1Flags, {15}))},
     status2 : {NoStatus, SomeStatus(from_bits_truncate(Status2Flags, {7})),
                SomeStatus(from_bits_truncate(Status2Flags, {15}))}]

InitSummary ==
    /\ InitBufferPart /\ requested = 1
    /\ InitCollectorPart /\ InitBt2Part /\ InitQueryPart
    /\ InitDiscoverPart /\ InitPduPart /\ InitBt2LifePart /\ InitReadPart /\ InitDevicePart /\ InitAlarmPart /\ InitRegisterPart /\ InitSerialPart /\ InitWritePart /\ InitSizePart /\ InitOverflowPart /\ InitPollPart /\ InitServerPart
    /\ InitSummaryPart /\ InitOverflowPart /\ InitPollPart /\ InitServerPart

\* one more snapshot joins the set and the set is rolled up
SummaryRollUp(info) ==
    /\ Len(batteries) < MaxBatteries
    /\ batteries' = Append(batteries, info)
    /\ summary' = summary_new(Append(batteries, info))
    /\ UNCHANGED <<coreVars, discVars, pduVars, bt2Life, readVars, devVars, alarmVars, regVars, serVars, wmVars, sizeVars, ovVars, pollVars, srvVars>>

NextSummary == \E info \in BatteryInfos : SummaryRollUp(info)

SpecSummary == InitSummary /\ [][NextSummary]_vars

----------------------------------------------------------------------------
\* Properties of the sample buffer (checked under SpecBuffer).

\* C4: whatever new was called with, and whatever pushes, extend_fronts and
\* drain_alls happened since, the buffer holds at most max(max_samples, 1)
\* snapshots.
C4_BoundedLen == Len(samples) <= Max(requested, 1)

C4_Witness ==
    /\ requested = 0
    /\ Len(samples) = 1
    /\ evictedHead # {}
    /\ droppedTail # {}

\* C5: after k pushes with no drain_all or extend_front in between the
\* buffer holds the last min(k, N) of them (after what it held before) in
\* push order, and a push on a full buffer evicts exactly the oldest.
C5_PushKeepsNewest ==
    /\ pushRun # <<>> => samples = LastN(base \o pushRun, max_samples)
    /\ (pushRun # <<>> /\ base = <<>>) =>
          /\ Len(samples) = Min(Len(pushRun), max_samples)
          /\ samples = LastN(pushRun, Min(Len(pushRun), max_samples))
    /\ (lastOp.op = "push" /\ Len(lastOp.pre) >= max_samples) =>
          samples = Append(Tail(lastOp.pre), lastOp.arg[1])

C5_Witness ==
    /\ base = <<>>
    /\ max_samples = 2
    /\ Len(pushRun) = 3
    /\ lastOp.op = "push"

\* C6: extend_front(batch) leaves the first N snapshots of batch followed by
\* the old content: the batch in front, in its own order, the tail dropped.
C6_ExtendFrontKeepsFront ==
    lastOp.op = "extend_front" =>
        /\ samples = FirstN(lastOp.arg \o lastOp.pre, max_samples)
        /\ Len(lastOp.arg) > max_samples => samples = FirstN(lastOp.arg, max_samples)

C6_Witness ==
    /\ lastOp.op = "extend_front"
    /\ max_samples = 2
    /\ Len(lastOp.arg) = 3
    /\ lastOp.pre # <<>>

\* C7: drain_all returns the whole content oldest first and leaves the
\* buffer empty; whatever the other clones do, a snapshot taken by drain_all
\* is not in the buffer as well, and every snapshot produced is in the
\* buffer, with the consumer, or was removed by an eviction.
C7_DrainAllAtomic ==
    /\ lastOp.op = "drain_all" => (lastOp.ret = lastOp.pre /\ samples = <<>>)
    /\ Range(held) \cap Range(samples) = {}
    /\ lastOp.op = "drain_all" =>
          Range(lastOp.pre) \subseteq Range(lastOp.ret) \cup Range(samples)

C7_Witness ==
    /\ lastOp.op = "drain_all"
    /\ Len(lastOp.ret) = 2
    /\ held = lastOp.ret
    /\ evictedHead # {}

----------------------------------------------------------------------------
\* Properties of the writer and the collector (checked under SpecCollector;
\* the backoff schedule under SpecBackoff).

RECURSIVE Pow2(_)
Pow2(n) == IF n <= 0 THEN 1 ELSE 2 * Pow2(n - 1)

Pushed == 1..(nextId - 1)

\* the states between a POST the sink accepted after exactly three refused
\* ones and the writer's next drain
AcceptedAfterThree == lastPost = "ok" /\ wpc = "tick" /\ Len(prevRun) = 3

\* C2 as stated: after three refused POSTs and an accepted one the sleeps
\* were 1 s, 2 s, 4 s, the backoff is back at 1 s, and every snapshot pushed
\* before the accepted batch was drained is in an accepted batch.
C2_Original ==
    AcceptedAfterThree =>
        /\ prevRun = <<1, 2, 4>>
        /\ backoff = 1
        /\ pushedAtDrain \subseteq accepted

\* C2 amended: ... every such snapshot is in an accepted batch unless the
\* bounded buffer dropped it on overflow (pop_front of a push on a full
\* buffer, pop_back of the requeue); without overflow none is lost.
C2_NoLossButOverflow ==
    AcceptedAfterThree =>
        /\ prevRun = <<1, 2, 4>>
        /\ backoff = 1
        /\ pushedAtDrain \subseteq (accepted \cup evictedHead \cup droppedTail)
        /\ (evictedHead \cup droppedTail = {}) => pushedAtDrain \subseteq accepted

C2_Witness ==
    /\ AcceptedAfterThree
    /\ evictedHead \cup droppedTail = {}
    /\ Cardinality(pushedAtDrain) >= 2
    /\ pushedAtDrain \subseteq accepted

\* C3: the backoff starts at 1 s, is 1 s after every success, the sleep
\* after the k-th consecutive failure lasts min(2^(k-1), 60) s, the backoff
\* is doubled (capped at 60 s) when that sleep is over, and never exceeds
\* 60 s.
C3_BackoffSchedule ==
    /\ backoff \in 1..60
    /\ fails = 0 => backoff = 1
    /\ Len(sleepRun) = fails
    /\ \A k \in 1..Len(sleepRun) : sleepRun[k] = Min(Pow2(k - 1), 60)
    /\ wpc = "backoff" => backoff = sleepRun[fails]
    /\ wpc \in {"tick", "post"} => backoff = Min(Pow2(fails), 60)

C3_Witness ==
    /\ wpc = "backoff"
    /\ fails = 7
    /\ sleepRun[7] = 60
    /\ sleepRun[6] = 32

\* C8 as stated: when the token fires while the writer waits for its tick
\* or sleeps in backoff (and that wait ends by the cancelled() branch), the
\* writer drains once more, posts at most once more (not at all when the
\* drain is empty), never requeues, and a batch requeued after a failed POST
\* is part of the final attempt.
C8_Original ==
    (shut.waiting /\ ~shut.raced) =>
        /\ shut.drains <= 1
        /\ shut.posts <= 1
        /\ shut.requeues = 0
        /\ wpc = "done" =>
              /\ shut.drains = 1
              /\ shut.posts = (IF shut.flushBatch = <<>> THEN 0 ELSE 1)
              /\ held = <<>>
        /\ wpc \in {"flush", "done"} =>
              Range(shut.requeued) \subseteq Range(shut.flushBatch)

\* C8 amended: the same, when the writer's select! takes the cancelled()
\* branch (the sleep it waited on did not complete first); and the final
\* attempt holds the snapshots of the requeued batch that later pushes did
\* not evict from the full buffer.
C8_FlushOnce ==
    /\ (shut.waiting /\ ~shut.raced) =>
        /\ shut.drains <= 1
        /\ shut.posts <= 1
        /\ shut.requeues = 0
        /\ wpc = "done" =>
              /\ shut.drains = 1
              /\ shut.posts = (IF shut.flushBatch = <<>> THEN 0 ELSE 1)
              /\ held = <<>>
    /\ wpc \in {"flush", "done"} =>
        /\ cancelled
        /\ Range(shut.flushBatch) \cap Range(samples) = {}
        /\ Range(shut.requeued) \subseteq (Range(shut.flushBatch) \cup evictedHead)

C8_Witness ==
    /\ shut.waiting
    /\ ~shut.raced
    /\ wpc = "done"
    /\ shut.requeued # <<>>
    /\ Range(shut.requeued) \subseteq Range(shut.flushBatch)
    /\ Len(shut.flushBatch) > Len(shut.requeued)

\* where a snapshot is: in the buffer, with the writer, consumed by the
\* writer (accepted, or given up by the final flush), evicted by push,
\* dropped by extend_front
Places(s) ==
    {p \in {"buffer", "writer", "accepted", "flushLost", "evictedHead", "droppedTail"} :
        \/ p = "buffer" /\ s \in Range(samples)
        \/ p = "writer" /\ s \in Range(held)
        \/ p = "accepted" /\ s \in accepted
        \/ p = "flushLost" /\ s \in flushLost
        \/ p = "evictedHead" /\ s \in evictedHead
        \/ p = "droppedTail" /\ s \in droppedTail}

\* C9 as stated: a pushed snapshot is in the buffer, drained by the writer,
\* or evicted from the buffer head; none is left when the collector ended.
C9_Original ==
    /\ \A s \in Pushed : Places(s) \cap {"buffer", "writer", "accepted", "flushLost",
                                         "evictedHead"} # {}
    /\ CollectorEnded => samples = <<>>

\* C9 amended: a pushed snapshot is in exactly one place: the buffer, the
\* writer's batch, consumed by the writer, evicted from the head by a push on
\* a full buffer, or dropped from the tail by a requeue beyond the cap; when
\* the collector ended, only snapshots pushed after the writer's final drain
\* are left in the buffer.
C9_Lifecycle ==
    /\ \A s \in Pushed : Cardinality(Places(s)) = 1
    /\ CollectorEnded => (held = <<>> /\ Range(samples) \subseteq shut.late)

C9_Witness ==
    /\ CollectorEnded
    /\ samples # <<>>
    /\ droppedTail # {}
    /\ accepted # {}

----------------------------------------------------------------------------
\* Properties of Bt2Transport (checked under SpecBt2).

\* C1: the response send_pdu returns answers the request it just wrote: it
\* is never a payload that answers an earlier request.
C1_NoGhostResponse == bres.kind = "ok" => bres.tag = bres.req

----------------------------------------------------------------------------
\* Properties of query_battery (checked under SpecQuery).

\* C10: query_battery returns None exactly when the serial-number read or
\* the cell_count read failed; the failure of any other read leaves the
\* result a snapshot.
C10_SomeIffIdentityAndCount ==
    /\ qOut = "None" <=> (qFailed \cap {"serial", "cell_count"} # {})
    /\ qOut = "Some" => qFailed \cap {"serial", "cell_count"} = {}
    /\ qOut = "Some" => (qInfo.serial = "read" /\ qpc > Len(ReadOrder))

C10_Witness ==
    /\ qOut = "Some"
    /\ "model" \in qFailed
    /\ "cell_voltages" \in qFailed
    /\ qInfo.cell_count = 17

----------------------------------------------------------------------------
\* Properties of discover_batteries (checked under SpecDiscover).

\* the addresses of the range in ascending order
ScanBand == [i \in 1..(IF dHi >= dLo THEN dHi - dLo + 1 ELSE 0) |-> dLo + i - 1]

\* the number of addresses at the front of the range whose probe succeeded
OkPrefix ==
    Cardinality({k \in 1..Len(probed) : \A j \in 1..k : probed[j].ok})

\* C11: the probes go through the range in ascending order from its start,
\* no address is probed after a failed probe, and the value returned is the
\* longest prefix of the range whose probes all succeeded.
C11_StopsAtFirstMissing ==
    /\ Len(probed) <= Len(ScanBand)
    /\ \A k \in 1..Len(probed) : probed[k].addr = ScanBand[k]
    /\ \A k \in 1..Len(probed) : ~probed[k].ok => k = Len(probed)
    /\ found = FirstN(ScanBand, OkPrefix)
    /\ dpc = "done" =>
          \/ Len(found) = Len(ScanBand)
          \/ /\ Len(probed) = Len(found) + 1
             /\ ~probed[Len(probed)].ok

C11_Witness ==
    /\ dpc = "done"
    /\ Len(found) = 2
    /\ Len(ScanBand) >= 4
    /\ ~probed[Len(probed)].ok

----------------------------------------------------------------------------
\* Properties of Pdu::serialize and Pdu::deserialize (checked under SpecPdu).

Deserialized == pduRes.kind # "none"

\* the CRC bytes of rx agree with the CRC of what precedes them
CrcAgrees ==
    checksum(SubSeq(rx, 1, Len(rx) - 2)) = rx[Len(rx) - 1] + 256 * rx[Len(rx)]

\* C12: for every frame F, deserialize(serialize(F)) is Ok(F).
C12_RoundTrip ==
    (Deserialized /\ rxHow = "intact") =>
        /\ rx = serialize(pdu)
        /\ pduRes.kind = "Ok"
        /\ pduRes.address = pdu.address
        /\ pduRes.function_code = pdu.function_code
        /\ pduRes.payload = pdu.payload

C12_Witness ==
    /\ Deserialized
    /\ rxHow = "intact"
    /\ pdu.function_code = 121
    /\ Len(pdu.payload) = 2
    /\ pduRes.payload = pdu.payload

\* C13: a serialized frame with one byte outside the two CRC bytes changed
\* deserializes to CrcMismatch.
C13_TamperDetected ==
    (Deserialized /\ rxHow = "tampered") => pduRes.kind = "CrcMismatch"

C13_Witness ==
    /\ Deserialized
    /\ rxHow = "tampered"
    /\ rx[1] # wire[1]
    /\ pduRes.kind = "CrcMismatch"

\* C14 as stated: fewer than 4 bytes is InvalidData; otherwise a CRC
\* disagreement is CrcMismatch; otherwise a function-code byte with bit 0x80
\* is the ModbusException of the third byte; otherwise an unknown function
\* code is InvalidData; otherwise the frame is decoded.
C14_Original ==
    Deserialized =>
        IF Len(rx) < 4 THEN pduRes.kind = "InvalidData"
        ELSE IF ~CrcAgrees THEN pduRes.kind = "CrcMismatch"
        ELSE IF rx[2] >= 128
             THEN pduRes.kind = "ModbusException" /\ pduRes.code = rx[3]
        ELSE IF rx[2] \notin {3, 6, 16, 120, 121} THEN pduRes.kind = "InvalidData"
        ELSE /\ pduRes.kind = "Ok"
             /\ <<pduRes.address, pduRes.function_code>> \o pduRes.payload
                    = SubSeq(rx, 1, Len(rx) - 2)

\* C14 amended: ... a function-code byte with bit 0x80 is the
\* ModbusException of the third byte when the frame has a third byte before
\* its CRC and that byte is a known exception code, and InvalidData when it
\* has none or the code is unknown; ...
C14_Classified ==
    Deserialized =>
        IF Len(rx) < 4 THEN pduRes.kind = "InvalidData"
        ELSE IF ~CrcAgrees THEN pduRes.kind = "CrcMismatch"
        ELSE IF rx[2] >= 128
             THEN IF Len(rx) >= 5 /\ rx[3] \in {1, 2, 3, 4, 5, 6, 8, 10, 11}
                  THEN pduRes.kind = "ModbusException" /\ pduRes.code = rx[3]
                  ELSE pduRes.kind = "InvalidData"
        ELSE IF rx[2] \notin {3, 6, 16, 120, 121} THEN pduRes.kind = "InvalidData"
        ELSE /\ pduRes.kind = "Ok"
             /\ <<pduRes.address, pduRes.function_code>> \o pduRes.payload
                    = SubSeq(rx, 1, Len(rx) - 2)

C14_Witness ==
    /\ rxHow = "forged"
    /\ pduRes.kind = "ModbusException"
    /\ pduRes.code = 11
    /\ rx[2] = 131

----------------------------------------------------------------------------
\* Properties of Bt2Transport (checked under SpecBt2 and SpecBt2Read).

C16_RelayAborted ==
    dropped => (relay # "running" /\ lateSends = 0)

\* C17: read_holding_registers returns InvalidData whenever the response
\* payload is empty or shorter than 1 + its first byte.
C17_ShortPayloadInvalid ==
    (rhrRes.kind # "none"
        /\ (respPayload = <<>> \/ Len(respPayload) < 1 + respPayload[1]))
    => rhrRes.kind = "InvalidData"

C17_Witness ==
    /\ rhrRes.kind = "InvalidData"
    /\ Len(respPayload) = 3
    /\ respPayload[1] = 3
    /\ quantity = 1

\* C39: a successful read_holding_registers(slave, addr, quantity) returns
\* exactly quantity words, word i decoded big-endian from the two bytes at
\* its position after the byte count.
C39_QuantityWords ==
    rhrRes.kind = "Ok" =>
        /\ Len(rhrRes.registers) = quantity
        /\ \A i \in 1..Len(rhrRes.registers) :
             rhrRes.registers[i] = respPayload[2 * i] * 256 + respPayload[2 * i + 1]

----------------------------------------------------------------------------
\* Properties of the device control commands (checked under SpecDevice).

\* C18: requires_unlock is true exactly for RestoreFactoryDefault and
\* ClearHistory, and for such a command the requests made are Unlock, the
\* command, Lock, in that order and with nothing in between.
C18_UnlockCommandLock ==
    /\ requires_unlock(command) <=> command \in {"RestoreFactoryDefault", "ClearHistory"}
    /\ (requests # <<>> /\ requires_unlock(command)) =>
           requests = <<create_pdu("Unlock", devAddr),
                        create_pdu(command, devAddr),
                        create_pdu("Lock", devAddr)>>

\* the PDU of a write-single request: register and value, big-endian
WriteSingle(addr, reg, value) ==
    [address |-> addr, function_code |-> 6,
     payload |-> <<reg \div 256, reg % 256, value \div 256, value % 256>>]

\* the table of section 4.7
CommandTable(cmd, addr) ==
    CASE cmd = "RestoreFactoryDefault" ->
           [address |-> addr, function_code |-> 120, payload |-> <<0, 0, 0, 1>>]
      [] cmd = "ClearHistory" ->
           [address |-> addr, function_code |-> 121, payload |-> <<0, 0, 0, 1>>]
      [] cmd = "Shutdown" -> WriteSingle(addr, 5222, 1)
      [] cmd = "Lock" -> WriteSingle(addr, 5224, 23130)
      [] cmd = "Unlock" -> WriteSingle(addr, 5224, 42405)
      [] cmd = "TestBegin" -> WriteSingle(addr, 5225, 23130)
      [] cmd = "TestEnd" -> WriteSingle(addr, 5225, 42405)

\* C19: create_pdu(addr) yields for every command the PDU of the table,
\* addressed to addr.
C19_CommandPdu == requests # <<>> => devPdu = CommandTable(command, devAddr)

\* a Lock was built for address 247: 06, 14 68, 5A 5A
C19_Witness ==
    /\ requests # <<>>
    /\ command = "Lock"
    /\ devAddr = 247
    /\ devPdu.payload = <<20, 104, 90, 90>>

----------------------------------------------------------------------------
\* Properties of the fields of a snapshot (checked under SpecQuery).

\* the fields of BatteryInfo by the way query_battery fills them
FieldsOf(policy) == {ReadOrder[i].field : i \in {j \in 1..Len(ReadOrder) : ReadOrder[j].policy = policy}}

\* the number of element reads query_battery made for a series
SeriesReads(f) ==
    LET i == CHOOSE j \in 1..Len(ReadOrder) : ReadOrder[j].field = f
    IN SeriesLimit(ReadOrder[i].reg, qInfo, qLocal)

\* C20: in a snapshot query_battery returned, every optional field is present
\* iff its read succeeded, every non-optional field whose read failed holds
\* its default, and every series holds one element per successful element
\* read and none for a failed one.
C20_FieldsFollowReads ==
    qOut = "Some" =>
        /\ \A f \in FieldsOf("option") : qInfo[f] = "Some" <=> f \notin qFailed
        /\ \A f \in FieldsOf("option") : qInfo[f] \in {"Some", "None"}
        /\ \A f \in FieldsOf("default") : f \in qFailed => qInfo[f] = "default"
        /\ \A f \in FieldsOf("series") : qInfo[f] + qMissed[f] = SeriesReads(f)

\* a snapshot with the BMS temperature read failed and one cell voltage
\* read failed out of 16, the other optional fields present
C20_Witness ==
    /\ qOut = "Some"
    /\ "bms_temperature" \in qFailed
    /\ qInfo.bms_temperature = "None"
    /\ qInfo.status1 = "Some"
    /\ qMissed["cell_voltages"] = 1
    /\ qInfo.cell_voltages = 15

\* C21: every snapshot query_battery returns has
\* cell_voltages.len() <= cell_count <= 16, cell_temperatures.len() <= 16,
\* environment_temperatures.len() <= 2 and heater_temperatures.len() <= 2,
\* whatever counts the device reports.
C21_SeriesBounds ==
    qOut = "Some" =>
        /\ qInfo.cell_voltages <= qInfo.cell_count
        /\ qInfo.cell_count <= 16
        /\ qInfo.cell_temperatures <= 16
        /\ qInfo.environment_temperatures <= 2
        /\ qInfo.heater_temperatures <= 2

\* C22: the timestamp of a returned snapshot is the time at which the serial
\* read completed, not the time of a later read.
C22_TimestampAtIdentity == qOut = "Some" => qInfo.timestamp = qLocal.serial_at

----------------------------------------------------------------------------
\* Properties of the bit-mapped registers (checked under SpecAlarm).

\* C23: for Status1, Status2, Status3, other-alarm info and the
\* charge/discharge status the raw value exported for the snapshot is the
\* word read from the device, for every word: no bit is discarded.
C23_RawWordPreserved ==
    (apc = "exported" /\ aReg \in {"Status1", "Status2", "Status3", "OtherAlarmInfo",
                                    "ChargeDischargeStatus"}) =>
        /\ aRaw.written
        /\ aRaw.value = aWord

\* C24: for every 32-bit word and every cell i in 0..15 the decoded state is
\* Over when bit i + 16 is set (also when bit i is set too), Under when only
\* bit i is set, Normal otherwise; voltage and temperature alarms alike.
C24_OverDominates ==
    (apc # "read" /\ aReg \in {"CellVoltageAlarmInfo", "CellTemperatureAlarmInfo"}) =>
        LET q == IF aReg = "CellVoltageAlarmInfo" THEN "Voltage" ELSE "Temperature"
        IN \A i \in 0..15 :
              aValue.alarms[i] =
                 IF (i + 16) \in aWord THEN "Over" \o q
                 ELSE IF i \in aWord THEN "Under" \o q
                 ELSE "Normal"

\* bits = (1 << 16) | 1: cell 1 is OverVoltage
C24_Witness ==
    /\ apc = "parsed"
    /\ aReg = "CellVoltageAlarmInfo"
    /\ aWord = {0, 16}
    /\ aValue.alarms[0] = "OverVoltage"
    /\ aValue.alarms[1] = "Normal"

----------------------------------------------------------------------------
\* Properties of the register catalog (checked under SpecRegister).

\* the variant parse_value gives for the register
DeclaredKind(r) == parse_value(r, [i \in 1..(quantity_of(r) * 2) |-> 0]).kind

\* C25: serialize_value succeeds only when the register is writable and the
\* value is of the register's declared kind; for every read-only register
\* and every mismatched pair it fails with UnsupportedOperation.
C25_SerializeOnlyWritable ==
    spc \in {"serialized", "parsed"} =>
        /\ sRes.ok => (sInfo.writable /\ sValue.kind = DeclaredKind(sReg))
        /\ ~sRes.ok => sRes.err = "UnsupportedOperation"

\* the least and the greatest value the register's word can stand for, and
\* the value of one LSB, in thousandths
WordBytes(r, first, rest, last) ==
    [i \in 1..(quantity_of(r) * 2) |->
        IF i = 1 THEN first ELSE IF i = quantity_of(r) * 2 THEN last ELSE rest]
Signed(r) == quantity_of(r) = 1 /\ parse_value(r, WordBytes(r, 128, 0, 0)).n < 0
ScaleLeast(r) == IF Signed(r) THEN parse_value(r, WordBytes(r, 128, 0, 0)).n ELSE 0
ScaleGreatest(r) ==
    IF Signed(r) \/ quantity_of(r) = 2
    THEN parse_value(r, WordBytes(r, 127, 255, 255)).n
    ELSE parse_value(r, WordBytes(r, 255, 255, 255)).n
Lsb(r) == parse_value(r, WordBytes(r, 0, 0, 1)).n

\* C26: for every writable register and every value of its declared kind
\* within the register's scale, parsing the serialized value gives the value
\* back within one LSB.
C26_RoundTripWithinLsb ==
    (/\ spc = "parsed"
     /\ sInfo.writable
     /\ sValue.kind = DeclaredKind(sReg)
     /\ sValue.n >= ScaleLeast(sReg)
     /\ sValue.n <= ScaleGreatest(sReg)) =>
        /\ sBack.kind = sValue.kind
        /\ sBack.n - sValue.n <= Lsb(sReg)
        /\ sValue.n - sBack.n <= Lsb(sReg)

\* C27: is_writable is true for every register of the configuration block
\* 5200..5229, of the ACP triple 61440..61442 and of the in-band limits
\* 5049..5052, and false for every other register.
C27_WritableBlocks ==
    spc # "start" =>
        (sInfo.writable <=>
            sInfo.address \in (5200..5229) \cup (61440..61442) \cup (5049..5052))

\* the lookups were made for the discharge current limit (5052, writable)
\* and the model holds a read-only monitoring register as well
C27_Witness ==
    /\ spc = "looked"
    /\ sReg.name = "DischargeCurrentLimit"
    /\ sInfo.address = 5052
    /\ sInfo.writable

----------------------------------------------------------------------------
\* Properties of the serial transport (checked under SpecSerial).

\* C28: whenever a request is handed to the driver, the driver's selected
\* slave is the request's slave address, and the stored slave_id always
\* equals the driver's selected slave.
C28_DriverTargetsRequest ==
    /\ slave_id = ctxSlave
    /\ handed.any => handed.slave = handed.address

\* a request for another slave than the current one was handed over after
\* the driver was re-targeted
C28_Witness ==
    /\ serOps = 2
    /\ handed.any
    /\ handed.address = 247
    /\ ctxSlave = 247
    /\ serRes.kind = "ok"

\* C40: send_receive never indexes the payload of a write-multiple request
\* past its end, whatever quantity and byte_count the payload declares: a
\* payload that does not hold the words its quantity asks for is rejected
\* with InvalidData.
C40_WordsInsidePayload == serRes.kind # "panic"

----------------------------------------------------------------------------
\* Properties of the write-multiple request (checked under SpecWrite).

\* C29: for every number N of values the call accepts, the payload is
\* addr(2) || qty(2) || byte_count(1) || words(2N) with qty = N and
\* byte_count = 2N.
C29_WriteMultipleLayout ==
    wmPdu # NoPdu =>
        LET p == wmPdu.payload
            N == Len(wmValues)
        IN /\ Len(p) = 5 + 2 * N
           /\ p[1] * 256 + p[2] = wmAddr
           /\ p[3] * 256 + p[4] = N
           /\ p[5] = 2 * N
           /\ \A i \in 1..N : p[4 + 2 * i] * 256 + p[5 + 2 * i] = wmValues[i]

----------------------------------------------------------------------------
\* Properties of the buffer sizing (checked under SpecSize).

\* C30: the buffer is sized to ceil(buffer_window / poll_interval) snapshots,
\* and to 1 when that is 0, for every buffer window and every poll interval
\* of at least 1 s.
C30_CeilOfWindow ==
    (sizedTo >= 0 /\ argPoll >= 1) =>
        LET window == argBuffer * 60
            up == (window + argPoll - 1) \div argPoll
        IN bufCap = IF up = 0 THEN 1 ELSE up

----------------------------------------------------------------------------
\* Properties of the roll-up (checked under SpecSummary).

\* C31: the roll-up of the empty set has empty status and zero totals, and
\* for every snapshot set S and snapshot b every Status1 and Status2 bit
\* set in the roll-up of S is also set in the roll-up of S plus b, wherever
\* b is put.
C31_RollUpMonotone ==
    /\ summary = summary_new(batteries)
    /\ summary_new(<<>>).status1 = {} /\ summary_new(<<>>).status2 = {}
    /\ summary_new(<<>>).total_current = 0
    /\ summary_new(<<>>).total_remaining_ah = 0
    /\ summary_new(<<>>).total_capacity_ah = 0
    /\ \A b \in BatteryInfos :
        /\ summary.status1 \subseteq summary_new(Append(batteries, b)).status1
        /\ summary.status2 \subseteq summary_new(Append(batteries, b)).status2
        /\ summary.status1 \subseteq summary_new(<<b>> \o batteries).status1
        /\ summary.status2 \subseteq summary_new(<<b>> \o batteries).status2

\* two snapshots with different bits and a third without a status word
C31_Witness ==
    /\ Len(batteries) = 3
    /\ batteries[1].status1 = SomeStatus({0})
    /\ batteries[2].status1 = SomeStatus({15})
    /\ batteries[3].status1 = NoStatus /\ batteries[3].status2 = NoStatus
    /\ summary.status1 = {0, 15}

----------------------------------------------------------------------------
\* Requeueing under concurrent pushes (checked under SpecCollector).

CaptureOrder(q) == \A i, j \in 1..Len(q) : i < j => q[i] < q[j]

\* C32: when a POST fails, the whole drained batch is put back in front of
\* the snapshots the poller pushed while the POST was in flight, and the
\* buffer is in capture order after every step.
C32_RequeueInOrder ==
    [][/\ CaptureOrder(samples')
       /\ (wpc = "post" /\ wpc' = "backoff") =>
            /\ FirstN(samples', Len(held)) = held
            /\ \E n \in 0..Len(samples) :
                 samples' = held \o FirstN(samples, n)]_vars

\* a batch was requeued in front of a snapshot pushed during its POST
C32_Witness ==
    /\ wpc = "backoff" /\ lastPost = "err"
    /\ Len(samples) = 2
    /\ samples[1] \in pushedAtDrain
    /\ samples[2] \notin pushedAtDrain

----------------------------------------------------------------------------
\* The order of the reads of query_battery (checked under SpecQuery).  A step
\* of SpecQuery is one read, from its request to its return; the read a step
\* makes is register ReadOrder[qpc].reg, element qi of its series.

ReadSeries == {"CellVoltage", "CellTemperature", "EnvironmentTemperature",
               "HeaterTemperature"}

\* the number of elements read of a series, by the counts read before it
ReadCount(reg, info, local) ==
    CASE reg = "CellVoltage" -> Min(info.cell_count, 16)
      [] reg = "CellTemperature" -> Min(local.cell_temp_count, 16)
      [] reg = "EnvironmentTemperature" -> Min(local.env_temp_count, 2)
      [] reg = "HeaterTemperature" -> Min(local.heater_temp_count, 2)
      [] OTHER -> 1

\* the order with each count read before its series and the BMS temperature
\* between the cell temperatures and the environment sensor count
InterleavedOrder ==
    << "SnNumber", "BatteryName", "SoftwareVersion", "ManufacturerName", "CellCount",
       "CellVoltage", "ModuleVoltage", "Current", "RemainingCapacity", "TotalCapacity",
       "CycleNumber", "CellTemperatureCount", "CellTemperature", "BmsTemperature",
       "EnvironmentTemperatureCount", "EnvironmentTemperature",
       "HeaterTemperatureCount", "HeaterTemperature",
       "ChargeVoltageLimit", "DischargeVoltageLimit", "ChargeCurrentLimit",
       "DischargeCurrentLimit", "Status1", "Status2", "Status3", "OtherAlarmInfo",
       "CellVoltageAlarmInfo", "CellTemperatureAlarmInfo", "ChargeDischargeStatus" >>

PlaceOf(reg) == CHOOSE i \in 1..Len(InterleavedOrder) : InterleavedOrder[i] = reg

\* the order with the BMS temperature after the sensor counts and the three
\* temperature series, which may come in any order among themselves
GroupedRank(reg) ==
    CASE reg \in {"CellTemperatureCount", "EnvironmentTemperatureCount",
                   "HeaterTemperatureCount", "CellTemperature",
                   "EnvironmentTemperature", "HeaterTemperature"} -> 12
      [] reg = "BmsTemperature" -> 13
      [] PlaceOf(reg) < 12 -> PlaceOf(reg)
      [] OTHER -> PlaceOf(reg) - 5

\* the registers from place a to place b are series without an element
NoneBetween(a, b, info, local) ==
    \A k \in a..b :
        /\ InterleavedOrder[k] \in ReadSeries
        /\ ReadCount(InterleavedOrder[k], info, local) = 0

\* what every read has in common: reads are made only while the query runs,
\* the first is the serial, an element read is within 1..min(count, cap),
\* and a failed serial or cell_count read ends the query
ReadStep ==
    LET r == ReadOrder[qpc].reg
    IN /\ qOut = "running"
       /\ qClock' = qClock + 1
       /\ qClock = 0 => r = "SnNumber"
       /\ r \in ReadSeries => qi \in 1..ReadCount(r, qInfo, qLocal)
       /\ (qFaults' > qFaults /\ r \in {"SnNumber", "CellCount"}) =>
            (qOut' = "None" /\ qpc' = qpc)

\* C33: the reads are made one at a time in the order serial, model,
\* software version, manufacturer, cell_count, cell voltages
\* 1..min(cell_count, 16), module voltage, current, remaining capacity, total
\* capacity, cycle count, cell sensor count and cell temperatures, BMS
\* temperature, environment sensor count and temperatures, heater sensor
\* count and temperatures, the four limits, the status and alarm words, the
\* charge/discharge status; none is left out but a series without elements;
\* no read follows a failed serial read or a failed cell_count read.
C33_ReadsInOrder ==
    [][LET r == ReadOrder[qpc].reg
       IN /\ ReadStep
          /\ qOut' = "running" =>
               \/ /\ r \in ReadSeries /\ ReadOrder[qpc'].reg = r
                  /\ qi' = qi + 1
               \/ /\ PlaceOf(ReadOrder[qpc'].reg) > PlaceOf(r)
                  /\ qi' = 1
                  /\ qi = ReadCount(r, qInfo, qLocal)
                  /\ NoneBetween(PlaceOf(r) + 1, PlaceOf(ReadOrder[qpc'].reg) - 1,
                                 qInfo', qLocal')
          /\ qOut' = "Some" =>
               /\ qi = ReadCount(r, qInfo, qLocal)
               /\ NoneBetween(PlaceOf(r) + 1, Len(InterleavedOrder), qInfo', qLocal')]_vars

\* the BMS temperature was read after 16 cell temperatures and the
\* environment sensor count is read next
C33_Witness ==
    /\ qOut = "running"
    /\ ReadOrder[qpc].reg = "EnvironmentTemperatureCount"
    /\ qInfo.bms_temperature = "Some"
    /\ qInfo.cell_temperatures + qMissed["cell_temperatures"] = 16
    /\ qInfo.cell_count = 17

\* C33 as stated: the BMS temperature is read after the sensor counts and
\* the temperature series.
C33_Original ==
    [][/\ ReadStep
       /\ qOut' = "running" =>
            GroupedRank(ReadOrder[qpc'].reg) >= GroupedRank(ReadOrder[qpc].reg)]_vars

----------------------------------------------------------------------------
\* Properties of the relay task (checked under SpecBt2).  A payload is named
\* by the request it answers, so each value change has its own payload.

\* C34: the relay task pushes each non-empty value-change payload into the
\* channel exactly once and in arrival order, never pushes an empty payload,
\* and the channel never holds more than 16 payloads.
C34_RelayOncePerChange ==
    /\ \A i, j \in 1..Len(chan) : i < j => chan[i] < chan[j]
    /\ \A i \in 1..Len(chan) : chan[i] # 0
    /\ Len(chan) <= 16

----------------------------------------------------------------------------
\* Properties of the overflow warning (checked under SpecOverflow).

\* C35: between two consecutive drain_all calls at most one warning is
\* logged however many pushes evict a snapshot, and the first evicting push
\* after a drain_all logs it: the warnings since the last drain_all are one
\* when a push has evicted since then and none otherwise.
C35_WarnOncePerDrain ==
    /\ warnsSince <= 1
    /\ warnsSince = 1 <=> evictsSince >= 1
    /\ overflow_logged <=> warnsSince = 1

\* a warning before a drain_all, and after it two evicting pushes with the
\* second warning
C35_Witness ==
    /\ warnsTotal = 2
    /\ warnsSince = 1
    /\ evictsSince = 2

----------------------------------------------------------------------------
\* Properties of run_poller (checked under SpecPoller).

\* the snapshots pushed in the round so far
RoundPushed == {roundLog[i].id : i \in {k \in 1..Len(roundLog) : roundLog[k].some}}

\* C36: in each round the addresses are queried one by one in list order;
\* a query that returned a snapshot updates the registry and then pushes the
\* snapshot, a failed one pushes nothing and the round goes on; the round is
\* never cut short, the poller stops only at the tick boundary and only
\* when the token has fired.
C36_PollRound ==
    /\ \A i \in 1..Len(roundLog) : roundLog[i].idx = i
    /\ ppc = "polling" => pIdx = Len(roundLog) + 1
    /\ ppc \in {"tick", "done"} => Len(roundLog) \in {0, MaxAddrs}
    /\ ppc = "done" => cancelled
    /\ RoundPushed = roundStart..(nextId - 1)
    /\ Range(samples) \cup evictedHead = 1..(nextId - 1)
    /\ \A i \in 1..Len(roundLog) :
         roundLog[i].some => registry[i] = roundLog[i].id
    /\ pstage = "push" =>
         /\ ppc = "polling"
         /\ registry[pIdx] = nextId
         /\ nextId \notin Range(samples)

\* the token fired, and the round was completed with the first query
\* failed and the second one pushed
C36_Witness ==
    /\ cancelled
    /\ ppc = "done"
    /\ Len(roundLog) = 2
    /\ ~roundLog[1].some
    /\ roundLog[2].some
    /\ roundLog[2].id \in Range(samples)

----------------------------------------------------------------------------
\* Termination of the collector (checked under SpecShutdown).

\* C37: once the token has fired, the poller, the remote writer and the
\* scrape server each return in the end and main reaches its end, every
\* query, POST and scrape request completing or timing out.
C37_ShutdownCompletes ==
    cancelled ~> (ppc = "done" /\ wpc = "done" /\ srvpc = "done" /\ mainpc = "done")

\* main ended after a failed POST in the run loop and a final flush that the
\* sink did not accept
C37_Witness ==
    /\ mainpc = "done"
    /\ cancelled
    /\ shut.drains >= 1
    /\ lastPost = "err"
    /\ flushLost # {}

----------------------------------------------------------------------------
\* Accepted batches (checked under SpecCollector).

\* C38: a snapshot of a batch the sink accepted is never sent again: the
\* batch being posted is not in the buffer, nothing accepted is in the
\* buffer or in a later batch, an accepted batch holds no snapshot accepted
\* before, and a batch is back in the buffer only after its POST failed.
C38_AcceptedOnce ==
    [][/\ Range(samples') \cap accepted' = {}
       /\ Range(held') \cap accepted' = {}
       /\ Range(held') \cap Range(samples') = {}
       /\ accepted' # accepted =>
            /\ Range(held) \cap accepted = {}
            /\ accepted' = accepted \cup Range(held)
            /\ wpc \in {"post", "flush"}
       /\ Range(held) \cap Range(samples') # {} =>
            (wpc = "post" /\ lastPost' = "err")]_vars

\* a batch was accepted after failed POSTs, and the buffer holds later
\* snapshots
C38_Witness ==
    /\ accepted # {}
    /\ lastPost = "ok"
    /\ prevRun # <<>>
    /\ samples # <<>>

====
